---- MODULE Spec2Model ----
(***************************************************************************)
(* Skybridge path worker of BioluminescenceScene.ts: the message handler   *)
(* (ctx.onmessage), buildPaths with its vertex classifier, the A* search   *)
(* with reusable scratch arrays, the placement loop and the cancellation   *)
(* token.  The host and the worker are two processes joined by two message *)
(* queues; the worker handles one inbound message at a time and the host   *)
(* may post at any moment.                                                 *)
(*                                                                         *)
(* Numbers: coordinates are integers (all modelled grids have even voxel   *)
(* sizes, so the half-voxel shifts are exact); lengths are fixed-point     *)
(* with CostScale units per coordinate unit, rounded down.  The modelled   *)
(* grids have rollStep = twistStep = 0.  The narrow-phase result of the    *)
(* collision test is given per grid as the table `hits`.  What buildPaths  *)
(* computes once per build from its grid (node coordinates, the edges each *)
(* node offers to the search, the pools) is computed once per grid here.   *)
(***************************************************************************)
EXTENDS Integers, Sequences, FiniteSets, TLC

\* Bound: how many messages the host posts in one run.
MaxSends == 2

\* Fixed-point scale of lengths (costs, heuristic).
CostScale == 16

NoNode == 0 - 1

Abs(x) == IF x < 0 THEN 0 - x ELSE x
Min2(a, b) == IF a <= b THEN a ELSE b
Max2(a, b) == IF a >= b THEN a ELSE b

(***************************************************************************)
(* Grid configurations the host may send (WorkerGrid).  `direction` is     *)
(* paramC[4*i+3] per instance, `hits` the set of <<instance, {a, b}>> for  *)
(* which segmentHitsInstance reports a hit on the lattice segment a-b.     *)
(***************************************************************************)
BaseGrid ==
  [countX |-> 2, countY |-> 0, countZ |-> 1,
   startX |-> 1, startY |-> 1, startZ |-> 1,
   voxelSizeXZ |-> 2, voxelHeight |-> 2, step |-> 2,
   basePlatformHeight |-> 0,
   xEdgesOpen |-> TRUE, zEdgesOpen |-> TRUE, twoSided |-> FALSE,
   gridX |-> 2, gridZ |-> 1, gridStartX |-> 1, gridStartZ |-> 1,
   instanceCount |-> 2, direction |-> <<1, 1>>,
   hits |-> {<<1, {1, 5}>>, <<1, {2, 4}>>}]

\* 3x1x2 lattice, two buildings; the second one also blocks the two z-edges
\* of its cell, which cuts the lattice into {0, 1, 3, 4} and {2, 5}.
GridStrip == [BaseGrid EXCEPT !.hits = @ \cup {<<1, {1, 2}>>, <<1, {4, 5}>>}]

\* The same lattice with a hole in cell 0 (hole-center node 6) beside a
\* building wider than its cell (base size 3 on a step of 2): the building
\* reaches into the hole cell and is hit by every segment except 0-3, 0-6
\* and 3-6.
GridHole ==
  [BaseGrid EXCEPT
     !.direction = <<0, 1>>,
     !.hits = {<<1, {a, b}>> : a \in 0..6, b \in 0..6}
              \ {<<1, {0, 3}>>, <<1, {0, 6}>>, <<1, {3, 6}>>}]

\* Two-sided 2x2x1 lattice, no instance in range: loops over all four nodes.
GridLoop ==
  [BaseGrid EXCEPT !.countX = 1, !.countY = 1, !.countZ = 0,
                   !.startY = 0 - 1, !.twoSided = TRUE,
                   !.gridX = 1, !.gridZ = 1, !.instanceCount = 2,
                   !.direction = <<1, 0 - 1>>, !.hits = {}]

\* Two-sided, one blocked diagonal: one boundary node per side.
GridLoopThin == [GridLoop EXCEPT !.hits = {<<0, {0, 3}>>}]

\* Sealed 2x1x2 lattice without hole centers: every edge is a domain edge.
GridSealed ==
  [BaseGrid EXCEPT !.countX = 1, !.xEdgesOpen = FALSE, !.zEdgesOpen = FALSE,
                   !.step = 4, !.gridX = 1, !.instanceCount = 1,
                   !.direction = <<1>>, !.hits = {}]

\* Malformed grids: a negative typed-array length raises a RangeError.
GridBadInstances == [BaseGrid EXCEPT !.instanceCount = 0 - 1]
GridBadRows == [BaseGrid EXCEPT !.gridX = 0 - 1, !.gridZ = 0 - 1,
                                !.instanceCount = 0, !.direction = <<>>,
                                !.hits = {}]

\* One hole cell of width 4 under a 2x3x2 lattice of height 2 per level
\* (hole-center nodes 12, 13, 14 at the three levels) beside a building
\* that is hit by the diagonal 0-7 of the lowest level and by the vertical
\* segment 2-4.
GridShaft ==
  [BaseGrid EXCEPT
     !.countX = 1, !.countY = 2,
     !.voxelSizeXZ = 4, !.step = 4,
     !.direction = <<0, 1>>,
     !.hits = {<<1, {0, 7}>>, <<1, {2, 4}>>}]

\* A 2x1x2 lattice over the first row of a grid of 1x2 cells: the building
\* of cell 0 is hit by the segment 2-3, and cell 1 is a hole (hole-center
\* node 4) whose far corners (0, 2) and (1, 2) are no lattice vertices.
GridOutside ==
  [BaseGrid EXCEPT
     !.countX = 1,
     !.gridX = 1, !.gridZ = 2,
     !.direction = <<1, 0>>,
     !.hits = {<<0, {2, 3}>>}]

\* Pure hole fields (every instance has direction 0) on a 2x1x2 lattice
\* whose voxels are half a cell wide, so without hole-center nodes: with
\* open and with sealed domain edges.
GridField ==
  [BaseGrid EXCEPT !.countX = 1, !.step = 4, !.gridX = 1, !.instanceCount = 1,
                   !.direction = <<0>>, !.hits = {}]

GridFieldSealed ==
  [GridField EXCEPT !.xEdgesOpen = FALSE, !.zEdgesOpen = FALSE]

\* GridShaft with every lattice segment between two levels hit by the
\* building: the levels are joined by the hole column 12-13-14 only.
GridShaftWalled ==
  [GridShaft EXCEPT
     !.hits = {<<1, {p[1], p[2]}>> :
                 p \in {q \in (0..11) \X (0..11) :
                          (q[1] \div 2) % 3 # (q[2] \div 2) % 3}}]

\* Two-sided, every segment between the two levels hit: each side is
\* connected in itself, and no route leads from one side to the other.
GridLoopSplit ==
  [GridLoop EXCEPT !.hits = {<<0, {0, 2}>>, <<0, {0, 3}>>,
                             <<0, {1, 2}>>, <<0, {1, 3}>>}]

\* Two-sided, one cell: no building on the positive side (instance 0), a
\* building on the negative side (instance 1) that no lattice segment hits.
GridLoopHalf == [GridLoop EXCEPT !.direction = <<0, 0 - 1>>]

\* 3x2x2 lattice (vertices 0..11) of voxels 4 wide and 8 high, half a cell
\* wide, so without hole-center nodes: the building is hit by the seven
\* segments that end at vertex 0 and by the segment 10-11.
GridCorner ==
  [BaseGrid EXCEPT !.countY = 1, !.voxelSizeXZ = 4, !.voxelHeight = 8,
                   !.step = 8, !.gridX = 1, !.instanceCount = 1,
                   !.direction = <<1>>,
                   !.hits = {<<0, {0, n}>> : n \in {1, 3, 4, 6, 7, 9, 10}}
                            \cup {<<0, {10, 11}>>}]

Grids == <<GridStrip, GridHole, GridLoop, GridLoopThin, GridSealed,
           GridBadInstances, GridBadRows, GridShaft, GridOutside,
           GridField, GridFieldSealed, GridShaftWalled, GridLoopSplit,
           GridLoopHalf, GridCorner>>

(***************************************************************************)
(* Derived grid quantities (buildPaths, first lines).                      *)
(***************************************************************************)
vertexCountX(g) == g.countX + 1
vertexCountY(g) == g.countY + 1
vertexCountZ(g) == g.countZ + 1
totalVertices(g) == vertexCountX(g) * vertexCountY(g) * vertexCountZ(g)
maxVertexX(g) == vertexCountX(g) - 1
maxVertexZ(g) == vertexCountZ(g) - 1
strideY(g) == vertexCountX(g)
strideZ(g) == vertexCountX(g) * vertexCountY(g)
cellCount(g) == g.gridX * g.gridZ
perCell(g) == IF g.twoSided THEN 2 ELSE 1
useHoleCenters(g) == g.voxelSizeXZ = g.step
holeCenterBaseIndex(g) == totalVertices(g)

\* vertexStart = start - voxel * 0.5
vertexStartX(g) == g.startX - (g.voxelSizeXZ \div 2)
vertexStartY(g) == g.startY - (g.voxelHeight \div 2)
vertexStartZ(g) == g.startZ - (g.voxelSizeXZ \div 2)

isBoundaryEdge(g, ix, nx, iz, nz) ==
  \/ /\ ~g.xEdgesOpen
     /\ (ix = 0 \/ nx = 0 \/ ix = maxVertexX(g) \/ nx = maxVertexX(g))
  \/ /\ ~g.zEdgesOpen
     /\ (iz = 0 \/ nz = 0 \/ iz = maxVertexZ(g) \/ nz = maxVertexZ(g))

\* Geometry deriver, direction part: |directionValue| < 0.5 marks a hole.
instanceDirection(g, i) ==
  LET directionValue == g.direction[i + 1]
  IN IF 2 * Abs(directionValue) < 1 THEN 0
     ELSE IF directionValue >= 0 THEN 1 ELSE 0 - 1

\* The cells that get hole-center nodes, in cell order (holeCells).
RECURSIVE HoleCellsFrom(_, _)
HoleCellsFrom(g, cell) ==
  IF cell >= cellCount(g) THEN <<>>
  ELSE LET baseInstance == cell * perCell(g)
           rest == HoleCellsFrom(g, cell + 1)
       IN IF baseInstance >= g.instanceCount THEN rest
          ELSE IF instanceDirection(g, baseInstance) # 0 THEN rest
          ELSE <<cell>> \o rest

holeCells(g) ==
  IF useHoleCenters(g) /\ cellCount(g) > 0 THEN HoleCellsFrom(g, 0) ELSE <<>>

\* holeIndexByCell[cell], -1 if the cell is no hole.
holeIndexByCell(g, cell) ==
  LET hc == holeCells(g)
      at == {k \in 1..Len(hc) : hc[k] = cell}
  IN IF at = {} THEN 0 - 1 ELSE (CHOOSE k \in at : TRUE) - 1

holeCenterCount(g) == Len(holeCells(g)) * vertexCountY(g)
totalNodeCount(g) == totalVertices(g) + holeCenterCount(g)
Nodes(g) == 0..(totalNodeCount(g) - 1)

\* A negative length passed to a typed-array constructor throws.
ThrowsBeforeStart(g) ==
  totalVertices(g) < 0 \/ cellCount(g) < 0 \/ g.instanceCount < 0
ThrowsAfterStart(g) == g.gridZ < 0

\* Lattice coordinates of a vertex index.
IxOf(g, idx) == idx % vertexCountX(g)
IyOf(g, idx) == (idx \div strideY(g)) % vertexCountY(g)
IzOf(g, idx) == idx \div strideZ(g)

\* The 26 neighbour offsets in the order the code pushes them (dz, dy, dx).
neighborOffsets ==
  [i \in 1..26 |->
     LET k == IF i <= 13 THEN i - 1 ELSE i
     IN [dx |-> (k % 3) - 1, dy |-> ((k \div 3) % 3) - 1, dz |-> (k \div 9) - 1]]

cornerOffsets ==
  <<[dx |-> 0, dz |-> 0], [dx |-> 1, dz |-> 0],
    [dx |-> 0, dz |-> 1], [dx |-> 1, dz |-> 1]>>

inLattice(g, nx, ny, nz) ==
  ~(nx < 0 \/ ny < 0 \/ nz < 0 \/ nx >= vertexCountX(g)
    \/ ny >= vertexCountY(g) \/ nz >= vertexCountZ(g))

(***************************************************************************)
(* Collision oracle.  segmentHitsInstance returns false for an absent      *)
(* instance; segmentHitsBuildings returns true when some instance is hit.  *)
(***************************************************************************)
segmentHitsInstance(g, a, b, instanceIndex) ==
  /\ instanceDirection(g, instanceIndex) # 0
  /\ <<instanceIndex, {a, b}>> \in g.hits

segmentHitsBuildings(g, a, b) ==
  \E instanceIndex \in 0..(g.instanceCount - 1) :
     segmentHitsInstance(g, a, b, instanceIndex)

(***************************************************************************)
(* Node coordinates and the per-node edge lists of the search, each in the *)
(* order in which aStar scans it.  An edge carries its target, its cost    *)
(* and the point the heuristic is evaluated at.  The tests of aStar that   *)
(* depend on the grid alone (lattice bounds, sealed domain edges, the      *)
(* collision test) are applied here; the tests that depend on the search   *)
(* (usage cap, closed set) are applied by aStar.                           *)
(***************************************************************************)
RECURSIVE ISqrtBetween(_, _, _)
ISqrtBetween(n, lo, hi) ==
  IF lo >= hi THEN lo
  ELSE IF ((lo + hi + 1) \div 2) * ((lo + hi + 1) \div 2) <= n
  THEN ISqrtBetween(n, (lo + hi + 1) \div 2, hi)
  ELSE ISqrtBetween(n, lo, ((lo + hi + 1) \div 2) - 1)

ISqrt(n) == ISqrtBetween(n, 0, Min2(n, 46340))

\* Math.sqrt(dx * dx + dy * dy + dz * dz) in fixed point.
Dist(dx, dy, dz) == ISqrt((dx * dx + dy * dy + dz * dz) * CostScale * CostScale)

getNodeCoords(g, idx) ==
  IF idx < holeCenterBaseIndex(g)
  THEN [x |-> vertexStartX(g) + IxOf(g, idx) * g.voxelSizeXZ,
        y |-> vertexStartY(g) + IyOf(g, idx) * g.voxelHeight,
        z |-> vertexStartZ(g) + IzOf(g, idx) * g.voxelSizeXZ]
  ELSE [x |-> g.gridStartX
              + (holeCells(g)[((idx - holeCenterBaseIndex(g))
                               \div vertexCountY(g)) + 1] % g.gridX) * g.step,
        y |-> vertexStartY(g)
              + ((idx - holeCenterBaseIndex(g)) % vertexCountY(g)) * g.voxelHeight,
        z |-> g.gridStartZ
              + (holeCells(g)[((idx - holeCenterBaseIndex(g))
                               \div vertexCountY(g)) + 1] \div g.gridX) * g.step]

Edge(to, cost, x, y, z) == [to |-> to, cost |-> cost, x |-> x, y |-> y, z |-> z]

\* Lattice vertex (ix, iy, iz) = idx towards its i-th neighbour offset.
neighborEdge(g, idx, ix, iy, iz, o) ==
  [ok |-> /\ inLattice(g, ix + o.dx, iy + o.dy, iz + o.dz)
          /\ ~isBoundaryEdge(g, ix, ix + o.dx, iz, iz + o.dz)
          /\ ~segmentHitsBuildings(g, idx,
                 idx + o.dx + o.dy * strideY(g) + o.dz * strideZ(g)),
   edge |-> Edge(idx + o.dx + o.dy * strideY(g) + o.dz * strideZ(g),
                 Dist(o.dx * g.voxelSizeXZ, o.dy * g.voxelHeight,
                      o.dz * g.voxelSizeXZ),
                 vertexStartX(g) + (ix + o.dx) * g.voxelSizeXZ,
                 vertexStartY(g) + (iy + o.dy) * g.voxelHeight,
                 vertexStartZ(g) + (iz + o.dz) * g.voxelSizeXZ)]

isOk(candidate) == candidate.ok
edgeOf(candidate) == candidate.edge
Map(F(_), q) == [i \in DOMAIN q |-> F(q[i])]

neighborEdges(g, idx) ==
  Map(edgeOf,
      SelectSeq([i \in 1..26 |->
                   neighborEdge(g, idx, IxOf(g, idx), IyOf(g, idx),
                                IzOf(g, idx), neighborOffsets[i])],
                isOk))

\* Lattice vertex towards the hole center of cell (cellX, cellZ).
holeEdge(g, x0, y0, z0, iy, cellX, cellZ) ==
  [ok |-> /\ ~(cellX < 0 \/ cellX >= g.gridX)
          /\ ~(cellZ < 0 \/ cellZ >= g.gridZ)
          /\ ~(holeIndexByCell(g, cellZ * g.gridX + cellX) < 0),
   edge |-> Edge(holeCenterBaseIndex(g)
                 + holeIndexByCell(g, cellZ * g.gridX + cellX) * vertexCountY(g)
                 + iy,
                 Dist((g.gridStartX + cellX * g.step) - x0, 0,
                      (g.gridStartZ + cellZ * g.step) - z0),
                 g.gridStartX + cellX * g.step, y0,
                 g.gridStartZ + cellZ * g.step)]

\* The cells around vertex (ix, iz) in scan order (cellDx outer, cellDz inner).
holeEdgesAt(g, c0, ix, iy, iz) ==
  Map(edgeOf,
      SelectSeq(<<holeEdge(g, c0.x, c0.y, c0.z, iy, ix, iz),
                  holeEdge(g, c0.x, c0.y, c0.z, iy, ix, iz - 1),
                  holeEdge(g, c0.x, c0.y, c0.z, iy, ix - 1, iz),
                  holeEdge(g, c0.x, c0.y, c0.z, iy, ix - 1, iz - 1)>>,
                isOk))

holeEdges(g, idx) ==
  IF holeCenterCount(g) > 0
  THEN holeEdgesAt(g, getNodeCoords(g, idx),
                   IxOf(g, idx), IyOf(g, idx), IzOf(g, idx))
  ELSE <<>>

\* Hole-center node of cell cellIndex at level iy towards corner (ix, iz);
\* the corner index is not checked against the lattice bounds.
cornerEdge(g, c0, iy, ix, iz) ==
  Edge(ix + iy * strideY(g) + iz * strideZ(g),
       Dist((vertexStartX(g) + ix * g.voxelSizeXZ) - c0.x, 0,
            (vertexStartZ(g) + iz * g.voxelSizeXZ) - c0.z),
       vertexStartX(g) + ix * g.voxelSizeXZ, c0.y,
       vertexStartZ(g) + iz * g.voxelSizeXZ)

cornerEdgesAt(g, c0, iy, cellX, cellZ) ==
  [i \in 1..Len(cornerOffsets) |->
     cornerEdge(g, c0, iy, cellX + cornerOffsets[i].dx,
                cellZ + cornerOffsets[i].dz)]

cornerEdges(g, idx) ==
  cornerEdgesAt(g, getNodeCoords(g, idx),
                (idx - holeCenterBaseIndex(g)) % vertexCountY(g),
                holeCells(g)[((idx - holeCenterBaseIndex(g))
                              \div vertexCountY(g)) + 1] % g.gridX,
                holeCells(g)[((idx - holeCenterBaseIndex(g))
                              \div vertexCountY(g)) + 1] \div g.gridX)

(***************************************************************************)
(* Visibility classifier (buildPaths, vertex loop).  The early `break`s of *)
(* the code only stop the scan once both flags are set, so the flags are   *)
(* the two existentials below.                                             *)
(***************************************************************************)
neighborIndex(g, idx, o) ==
  idx + o.dx + o.dy * strideY(g) + o.dz * strideZ(g)

neighborInLattice(g, idx, o) ==
  inLattice(g, IxOf(g, idx) + o.dx, IyOf(g, idx) + o.dy, IzOf(g, idx) + o.dz)

neighborSealed(g, idx, o) ==
  isBoundaryEdge(g, IxOf(g, idx), IxOf(g, idx) + o.dx,
                    IzOf(g, idx), IzOf(g, idx) + o.dz)

\* Cells (as <<cellX, cellZ>>) around a vertex that are holes, in scan order.
adjacentHoleCells(g, ix, iz) ==
  LET cand == <<<<ix, iz>>, <<ix, iz - 1>>, <<ix - 1, iz>>, <<ix - 1, iz - 1>>>>
      ok(c) == /\ ~(c[1] < 0 \/ c[1] >= g.gridX)
               /\ ~(c[2] < 0 \/ c[2] >= g.gridZ)
               /\ holeIndexByCell(g, c[2] * g.gridX + c[1]) >= 0
  IN SelectSeq(cand, ok)

\* Variant of hasClear: only an adjoining hole-center column makes a vertex
\* clear.
hasClearByHoles(g, idx) ==
  /\ holeCenterCount(g) > 0
  /\ adjacentHoleCells(g, IxOf(g, idx), IzOf(g, idx)) # <<>>

hasClear(g, idx) ==
  \/ \E i \in 1..26 :
        /\ neighborInLattice(g, idx, neighborOffsets[i])
        /\ ~neighborSealed(g, idx, neighborOffsets[i])
        /\ ~segmentHitsBuildings(g, idx, neighborIndex(g, idx, neighborOffsets[i]))
  \/ /\ holeCenterCount(g) > 0
     /\ adjacentHoleCells(g, IxOf(g, idx), IzOf(g, idx)) # <<>>

\* Variant of hasBlocked: a vertex on the outer face of the lattice counts
\* as having a blocked edge.
hasBlockedAtFace(g, idx) ==
  \E i \in 1..26 :
     \/ ~neighborInLattice(g, idx, neighborOffsets[i])
     \/ neighborSealed(g, idx, neighborOffsets[i])
     \/ segmentHitsBuildings(g, idx, neighborIndex(g, idx, neighborOffsets[i]))

hasBlocked(g, idx) ==
  \E i \in 1..26 :
     /\ neighborInLattice(g, idx, neighborOffsets[i])
     /\ \/ neighborSealed(g, idx, neighborOffsets[i])
        \/ segmentHitsBuildings(g, idx, neighborIndex(g, idx, neighborOffsets[i]))

\* The indices below n that satisfy keep, in increasing order (push order).
RECURSIVE IndicesFrom(_, _, _)
IndicesFrom(idx, n, keep) ==
  IF idx >= n THEN <<>>
  ELSE IF idx \in keep THEN <<idx>> \o IndicesFrom(idx + 1, n, keep)
  ELSE IndicesFrom(idx + 1, n, keep)

isPositive(g, idx) ==
  vertexStartY(g) + IyOf(g, idx) * g.voxelHeight >= g.basePlatformHeight

classifyVertices(g) ==
  LET n == totalVertices(g)
      V == 0..(n - 1)
      clear == {v \in V : hasClear(g, v)}
      bnd == {v \in clear : hasBlocked(g, v)}
      pos == IF g.twoSided THEN {v \in clear : isPositive(g, v)} ELSE {}
      neg == IF g.twoSided THEN {v \in clear : ~isPositive(g, v)} ELSE {}
  IN [anyClearIndices |-> IndicesFrom(0, n, clear),
      boundaryIndices |-> IndicesFrom(0, n, bnd),
      anyClearPositive |-> IndicesFrom(0, n, pos),
      anyClearNegative |-> IndicesFrom(0, n, neg),
      boundaryPositive |-> IndicesFrom(0, n, pos \cap bnd),
      boundaryNegative |-> IndicesFrom(0, n, neg \cap bnd),
      boundaryFlags |-> [v \in V |-> IF v \in bnd THEN 1 ELSE 0]]

\* Variant of startPoolOf: the clear pools are used even when there are
\* boundary vertices.
startPoolOfAnyClear(g, c) ==
  IF g.twoSided THEN c.anyClearPositive ELSE c.anyClearIndices

startPoolOf(g, c) ==
  IF g.twoSided
  THEN (IF Len(c.boundaryPositive) > 0 THEN c.boundaryPositive ELSE c.anyClearPositive)
  ELSE (IF Len(c.boundaryIndices) > 0 THEN c.boundaryIndices ELSE c.anyClearIndices)

endPoolOf(g, c) ==
  IF g.twoSided
  THEN (IF Len(c.boundaryNegative) > 0 THEN c.boundaryNegative ELSE c.anyClearNegative)
  ELSE (IF Len(c.boundaryIndices) > 0 THEN c.boundaryIndices ELSE c.anyClearIndices)

validCountOf(g, c) ==
  IF g.twoSided THEN Len(startPoolOf(g, c)) + Len(endPoolOf(g, c))
  ELSE Len(startPoolOf(g, c))

(***************************************************************************)
(* What buildPaths holds about its grid once classification is done.       *)
(***************************************************************************)
withPools(g, c) ==
  [grid |-> g,
   totalVertices |-> totalVertices(g),
   totalNodeCount |-> totalNodeCount(g),
   holeCenterBaseIndex |-> holeCenterBaseIndex(g),
   vertexCountY |-> vertexCountY(g),
   voxelHeight |-> g.voxelHeight,
   coords |-> [n \in Nodes(g) |-> getNodeCoords(g, n)],
   edges |-> [n \in Nodes(g) |->
                IF n < holeCenterBaseIndex(g)
                THEN neighborEdges(g, n) \o holeEdges(g, n)
                ELSE cornerEdges(g, n)],
   startPool |-> startPoolOf(g, c),
   endPool |-> endPoolOf(g, c),
   validCount |-> validCountOf(g, c),
   boundaryFlags |-> c.boundaryFlags]

tablesOf(g) == withPools(g, classifyVertices(g))

Tables == [k \in DOMAIN Grids |-> tablesOf(Grids[k])]

(***************************************************************************)
(* Typed arrays: a read outside the array yields undefined (every          *)
(* comparison with it is false), a write outside it is dropped.            *)
(***************************************************************************)
SetAt(arr, i, v) == IF i \in DOMAIN arr THEN [arr EXCEPT ![i] = v] ELSE arr
AtCap(nodeUsage, cap, i) == i \in DOMAIN nodeUsage /\ nodeUsage[i] >= cap
HasStamp(arr, i, stamp) == i \in DOMAIN arr /\ arr[i] = stamp

(***************************************************************************)
(* Binary min-heap of the open set.  A heap h holds the typed arrays       *)
(* heapIndices and heapScores, both of length totalNodeCount, and heapSize *)
(* (size).  A write outside the arrays is dropped; a read outside them     *)
(* yields undefined, which compares false with every number and is stored  *)
(* as 0 in heapIndices and as NaN in heapScores.  NotANumber stands for    *)
(* both undefined and NaN (no score is negative).                          *)
(***************************************************************************)
NotANumber == 0 - 1

numLeq(a, b) == a # NotANumber /\ b # NotANumber /\ a <= b
numLess(a, b) == a # NotANumber /\ b # NotANumber /\ a < b
numGeq(a, b) == a # NotANumber /\ b # NotANumber /\ a >= b

indexAt(h, i) == IF i \in DOMAIN h.heapIndices THEN h.heapIndices[i] ELSE 0
scoreAt(h, i) ==
  IF i \in DOMAIN h.heapScores THEN h.heapScores[i] ELSE NotANumber

\* heapIndices[i] = idx; heapScores[i] = score;
putAt(h, i, idx, score) ==
  [h EXCEPT !.heapIndices = SetAt(@, i, idx),
            !.heapScores = SetAt(@, i, score)]

\* The arrays as allocated, with heapSize = 0.  An entry below heapSize has
\* been written since heapSize was last 0, so what earlier searches left in
\* the arrays is never read.
emptyHeap(length) ==
  [heapIndices |-> [i \in 0..(length - 1) |-> 0],
   heapScores |-> [i \in 0..(length - 1) |-> 0],
   size |-> 0]

RECURSIVE SiftUp(_, _, _)
SiftUp(h, i, e) ==
  IF i = 0 THEN h
  ELSE IF numLeq(scoreAt(h, (i - 1) \div 2), e.score) THEN h
  ELSE SiftUp(putAt(putAt(h, i, indexAt(h, (i - 1) \div 2),
                          scoreAt(h, (i - 1) \div 2)),
                    (i - 1) \div 2, e.idx, e.score),
              (i - 1) \div 2, e)

heapEntry(idx, score) == [idx |-> idx, score |-> score]

heapPush(h, idx, score) ==
  [SiftUp(putAt(h, h.size, idx, score), h.size, heapEntry(idx, score))
     EXCEPT !.size = h.size + 1]

\* The child the sift-down of heapPop compares with the last entry.
smallerChild(h, left, lastIndex) ==
  IF left + 1 < lastIndex /\ numLess(scoreAt(h, left + 1), scoreAt(h, left))
  THEN left + 1 ELSE left

RECURSIVE SiftDown(_, _, _, _)
SiftDown(h, i, last, lastIndex) ==
  IF i * 2 + 1 >= lastIndex THEN putAt(h, i, last.idx, last.score)
  ELSE IF numGeq(scoreAt(h, smallerChild(h, i * 2 + 1, lastIndex)), last.score)
  THEN putAt(h, i, last.idx, last.score)
  ELSE SiftDown(putAt(h, i, indexAt(h, smallerChild(h, i * 2 + 1, lastIndex)),
                      scoreAt(h, smallerChild(h, i * 2 + 1, lastIndex))),
                smallerChild(h, i * 2 + 1, lastIndex), last, lastIndex)

\* heapPop of a non-empty heap: the popped entry and the remaining heap.
heapPop(h) ==
  [idx |-> indexAt(h, 0), score |-> scoreAt(h, 0),
   heap |-> [(IF h.size - 1 > 0
              THEN SiftDown(h, 0, heapEntry(indexAt(h, h.size - 1),
                                            scoreAt(h, h.size - 1)),
                            h.size - 1)
              ELSE h)
               EXCEPT !.size = h.size - 1]]

(***************************************************************************)
(* A* search (aStar) over the tables t of the build.  A search state s     *)
(* holds the scratch arrays (stamp, closed, gStamp, gScore, parents), the  *)
(* open heap, the iteration counter of the cancellation poll and the       *)
(* status of the main loop.                                                *)
(***************************************************************************)
cancelMask == 16383
StampLimit == 2147483646
Infinity == CostScale * 1000000

freshScratch(t) ==
  [stamp |-> 1,
   closed |-> [n \in 0..(t.totalNodeCount - 1) |-> 0],
   gStamp |-> [n \in 0..(t.totalNodeCount - 1) |-> 0],
   gScore |-> [n \in 0..(t.totalNodeCount - 1) |-> 0],
   parents |-> [n \in 0..(t.totalNodeCount - 1) |-> 0]]

NoScratch == [stamp |-> 0, closed |-> <<>>, gStamp |-> <<>>, gScore |-> <<>>,
              parents |-> <<>>]

heuristic(t, endIndex, x, y, z) ==
  Dist(x - t.coords[endIndex].x, y - t.coords[endIndex].y,
       z - t.coords[endIndex].z)

\* The relaxation step shared by all kinds of edges.
relax(s, idx, nIdx, tentative, f) ==
  IF ~HasStamp(s.gStamp, nIdx, s.stamp) \/ tentative < s.gScore[nIdx]
  THEN [s EXCEPT !.gScore = SetAt(@, nIdx, tentative),
                 !.gStamp = SetAt(@, nIdx, s.stamp),
                 !.parents = SetAt(@, nIdx, idx),
                 !.heap = heapPush(@, nIdx, f)]
  ELSE s

baseCostOf(s, idx) ==
  IF HasStamp(s.gStamp, idx, s.stamp) THEN s.gScore[idx] ELSE Infinity

\* Variant of tryEdge: the usage cap of the target is not looked at.
tryEdgeAnyUsage(t, nodeUsage, cap, endIndex, s, idx, baseCost, e) ==
  IF HasStamp(s.closed, e.to, s.stamp) THEN s
  ELSE relax(s, idx, e.to, baseCost + e.cost,
             baseCost + e.cost + heuristic(t, endIndex, e.x, e.y, e.z))

\* One edge of the scan of idx: skipped when its target is at the usage cap
\* or closed, relaxed otherwise.
tryEdge(t, nodeUsage, cap, endIndex, s, idx, baseCost, e) ==
  IF AtCap(nodeUsage, cap, e.to) \/ HasStamp(s.closed, e.to, s.stamp) THEN s
  ELSE relax(s, idx, e.to, baseCost + e.cost,
             baseCost + e.cost + heuristic(t, endIndex, e.x, e.y, e.z))

\* The edges of idx from position i on: the 26 neighbours and the adjoining
\* hole centers of a lattice node, the four corners of a hole-center node.
RECURSIVE expandEdges(_, _, _, _, _, _, _, _)
expandEdges(t, nodeUsage, cap, endIndex, s, idx, baseCost, i) ==
  IF i > Len(t.edges[idx]) THEN s
  ELSE expandEdges(t, nodeUsage, cap, endIndex,
                   tryEdge(t, nodeUsage, cap, endIndex, s, idx, baseCost,
                           t.edges[idx][i]),
                   idx, baseCost, i + 1)

\* A vertical edge of a hole-center node whose target is below the cap.
relaxVertical(t, endIndex, s, idx, nIdx, baseCost, y) ==
  IF HasStamp(s.closed, nIdx, s.stamp) THEN s
  ELSE relax(s, idx, nIdx, baseCost + t.voxelHeight * CostScale,
             baseCost + t.voxelHeight * CostScale
             + heuristic(t, endIndex, t.coords[idx].x, y, t.coords[idx].z))

expandUp(t, nodeUsage, cap, endIndex, s, idx, baseCost, iy) ==
  IF iy + 1 < t.vertexCountY /\ ~AtCap(nodeUsage, cap, idx + 1)
  THEN relaxVertical(t, endIndex, s, idx, idx + 1, baseCost,
                     t.coords[idx].y + t.voxelHeight)
  ELSE s

\* Vertical edges of a hole-center node; a lower node at the cap ends the
\* scan of idx (`continue`) before the upper node is looked at.
expandVertical(t, nodeUsage, cap, endIndex, s, idx, baseCost, iy) ==
  IF iy > 0 /\ AtCap(nodeUsage, cap, idx - 1) THEN s
  ELSE expandUp(t, nodeUsage, cap, endIndex,
                IF iy > 0
                THEN relaxVertical(t, endIndex, s, idx, idx - 1, baseCost,
                                   t.coords[idx].y - t.voxelHeight)
                ELSE s,
                idx, baseCost, iy)

expand(t, nodeUsage, cap, endIndex, s, idx) ==
  IF idx < t.holeCenterBaseIndex
  THEN expandEdges(t, nodeUsage, cap, endIndex, s, idx, baseCostOf(s, idx), 1)
  ELSE IF idx >= t.totalNodeCount THEN s
  ELSE expandVertical(t, nodeUsage, cap, endIndex,
         expandEdges(t, nodeUsage, cap, endIndex, s, idx, baseCostOf(s, idx), 1),
         idx, baseCostOf(s, idx),
         (idx - t.holeCenterBaseIndex) % t.vertexCountY)

\* The body of the main loop for the popped node idx.
visit(t, nodeUsage, cap, endIndex, s, idx) ==
  IF HasStamp(s.closed, idx, s.stamp) THEN s
  ELSE IF idx = endIndex
  THEN [s EXCEPT !.closed = SetAt(@, idx, s.stamp), !.status = "reached"]
  ELSE expand(t, nodeUsage, cap, endIndex,
              [s EXCEPT !.closed = SetAt(@, idx, s.stamp)], idx)

afterPop(t, nodeUsage, cap, endIndex, s, popped) ==
  visit(t, nodeUsage, cap, endIndex,
        [s EXCEPT !.heap = popped.heap, !.iterations = @ + 1], popped.idx)

\* One iteration; mismatch is the value of token !== activeToken.
iteration(t, nodeUsage, cap, endIndex, mismatch, s) ==
  IF (s.iterations % (cancelMask + 1)) = 0 /\ mismatch
  THEN [s EXCEPT !.status = "cancelled"]
  ELSE afterPop(t, nodeUsage, cap, endIndex, s, heapPop(s.heap))

RECURSIVE aStarLoop(_, _, _, _, _, _)
aStarLoop(t, nodeUsage, cap, endIndex, mismatch, s) ==
  IF s.heap.size = 0 \/ s.status # "running" THEN s
  ELSE aStarLoop(t, nodeUsage, cap, endIndex, mismatch,
                 iteration(t, nodeUsage, cap, endIndex, mismatch, s))

Reverse(q) == [i \in 1..Len(q) |-> q[Len(q) + 1 - i]]

\* Path reconstruction: <<>> stands for the `failed` returns.
RECURSIVE walkBack(_, _, _, _, _, _)
walkBack(t, s, startIndex, current, safety, acc) ==
  IF current # startIndex /\ safety < t.totalNodeCount
  THEN IF ~HasStamp(s.gStamp, current, s.stamp) THEN <<>>
       ELSE walkBack(t, s, startIndex, s.parents[current], safety + 1,
                     Append(acc, current))
  ELSE IF current # startIndex THEN <<>>
  ELSE Reverse(Append(acc, startIndex))

scratchOf(s) ==
  [stamp |-> s.stamp, closed |-> s.closed, gStamp |-> s.gStamp,
   gScore |-> s.gScore, parents |-> s.parents]

PathResult(status, path, sc) == [status |-> status, path |-> path, scratch |-> sc]

foundOrFailed(path, sc) ==
  IF path = <<>> THEN PathResult("failed", <<>>, sc)
  ELSE PathResult("found", path, sc)

\* The code after the main loop.
resultOf(t, s, startIndex, endIndex) ==
  IF s.status = "cancelled" THEN PathResult("cancelled", <<>>, scratchOf(s))
  ELSE IF ~HasStamp(s.closed, endIndex, s.stamp)
  THEN PathResult("failed", <<>>, scratchOf(s))
  ELSE foundOrFailed(walkBack(t, s, startIndex, endIndex, 0, <<>>), scratchOf(s))

\* Variant of nextStamp: the stamp starts over without the arrays being
\* cleared.
nextStampUncleared(sc) ==
  IF sc.stamp + 1 >= StampLimit THEN [sc EXCEPT !.stamp = 1]
  ELSE [sc EXCEPT !.stamp = @ + 1]

nextStamp(sc) ==
  IF sc.stamp + 1 >= StampLimit
  THEN [sc EXCEPT !.closed = [n \in DOMAIN sc.closed |-> 0],
                  !.gStamp = [n \in DOMAIN sc.gStamp |-> 0],
                  !.stamp = 1]
  ELSE [sc EXCEPT !.stamp = @ + 1]

startState(t, sc, startIndex, endIndex) ==
  [stamp |-> sc.stamp,
   closed |-> sc.closed,
   gStamp |-> SetAt(sc.gStamp, startIndex, sc.stamp),
   gScore |-> SetAt(sc.gScore, startIndex, 0),
   parents |-> SetAt(sc.parents, startIndex, startIndex),
   heap |-> heapPush(emptyHeap(t.totalNodeCount), startIndex,
                     heuristic(t, endIndex, t.coords[startIndex].x,
                               t.coords[startIndex].y, t.coords[startIndex].z)),
   iterations |-> 0,
   status |-> "running"]

\* aStar once the stamp is advanced.
searchFrom(t, nodeUsage, cap, sc, startIndex, endIndex, mismatch) ==
  IF AtCap(nodeUsage, cap, startIndex) \/ AtCap(nodeUsage, cap, endIndex)
  THEN PathResult("failed", <<>>, sc)
  ELSE resultOf(t, aStarLoop(t, nodeUsage, cap, endIndex, mismatch,
                             startState(t, sc, startIndex, endIndex)),
                startIndex, endIndex)

aStar(t, nodeUsage, cap, sc, startIndex, endIndex, mismatch) ==
  searchFrom(t, nodeUsage, cap, nextStamp(sc), startIndex, endIndex, mismatch)

(***************************************************************************)
(* Endpoint sampling.  Math.random makes every eligible pool element a     *)
(* possible result of the rejection phase, and the linear fallback returns *)
(* an eligible element too, so each operator yields the set of results the *)
(* draws can produce.                                                      *)
(***************************************************************************)
NullPair == <<NoNode, NoNode>>

\* pickUnblocked of selectPair; NoNode stands for null (result and avoid).
eligible(pool, avoid, nodeUsage, cap) ==
  {pool[i] : i \in {j \in DOMAIN pool :
                      /\ ~(avoid # NoNode /\ pool[j] = avoid)
                      /\ ~AtCap(nodeUsage, cap, pool[j])}}

\* Variant of pickUnblocked: the node to avoid is not avoided.
pickUnblockedAny(pool, avoid, nodeUsage, cap) ==
  IF eligible(pool, NoNode, nodeUsage, cap) = {} THEN {NoNode}
  ELSE eligible(pool, NoNode, nodeUsage, cap)

pickUnblocked(pool, avoid, nodeUsage, cap) ==
  IF eligible(pool, avoid, nodeUsage, cap) = {} THEN {NoNode}
  ELSE eligible(pool, avoid, nodeUsage, cap)

pairWith(startIndex, endIndex) ==
  IF endIndex = NoNode THEN NullPair ELSE <<startIndex, endIndex>>

selectPair(startPool, endPool, useSides, nodeUsage, cap) ==
  IF Len(startPool) = 0 \/ Len(endPool) = 0 THEN {NullPair}
  ELSE UNION {
         IF startIndex = NoNode THEN {NullPair}
         ELSE {pairWith(startIndex, endIndex) :
                 endIndex \in pickUnblocked(endPool,
                                IF useSides THEN NoNode ELSE startIndex,
                                nodeUsage, cap)} :
         startIndex \in pickUnblocked(startPool, NoNode, nodeUsage, cap)}

\* pickDistinct(pool, 2, ...): ordered pairs of distinct eligible elements.
distinctPairs(ok) == {<<a, b>> : a \in ok, b \in ok} \ {<<a, a>> : a \in ok}

pickDistinct(pool, nodeUsage, cap) ==
  IF Len(pool) < 2 \/ distinctPairs(eligible(pool, NoNode, nodeUsage, cap)) = {}
  THEN {NullPair}
  ELSE distinctPairs(eligible(pool, NoNode, nodeUsage, cap))

\* Variant of mergeSegments: every segment is copied from its first node.
RECURSIVE mergeSegmentsWhole(_, _)
mergeSegmentsWhole(segments, i) ==
  IF i > Len(segments) THEN <<>>
  ELSE segments[i] \o mergeSegmentsWhole(segments, i + 1)

RECURSIVE mergeSegments(_, _)
mergeSegments(segments, i) ==
  IF i > Len(segments) THEN <<>>
  ELSE (IF i = 1 THEN segments[i] ELSE Tail(segments[i]))
       \o mergeSegments(segments, i + 1)

\* Variant of blockPath: the increment is not clamped to the cap.
RECURSIVE blockPathUnclamped(_, _, _)
blockPathUnclamped(nodeUsage, cap, path) ==
  IF path = <<>> THEN nodeUsage
  ELSE blockPathUnclamped([nodeUsage EXCEPT ![path[1]] = nodeUsage[path[1]] + 1],
                          cap, Tail(path))

\* blockPath: one capped increment per position of the path.
RECURSIVE blockPath(_, _, _)
blockPath(nodeUsage, cap, path) ==
  IF path = <<>> THEN nodeUsage
  ELSE blockPath([nodeUsage EXCEPT
                    ![path[1]] = IF nodeUsage[path[1]] + 1 >= cap THEN cap
                                 ELSE nodeUsage[path[1]] + 1],
                 cap, Tail(path))

\* The chained searches of buildLoop from stop i on; the first segment that
\* is not found is the result.
RECURSIVE chainSegments(_, _, _, _, _, _, _, _)
\* Variant of segmentDone: the segments after a failed one are searched too.
segmentDoneSearchOn(t, nodeUsage, cap, stops, i, mismatch, segments, seg) ==
  IF seg.status = "failed"
  THEN PathResult("failed", <<>>,
                  chainSegments(t, nodeUsage, cap, seg.scratch, stops, i + 1,
                                mismatch, segments).scratch)
  ELSE IF seg.status # "found" THEN seg
  ELSE chainSegments(t, nodeUsage, cap, seg.scratch, stops, i + 1, mismatch,
                     Append(segments, seg.path))

segmentDone(t, nodeUsage, cap, stops, i, mismatch, segments, seg) ==
  IF seg.status # "found" THEN seg
  ELSE chainSegments(t, nodeUsage, cap, seg.scratch, stops, i + 1, mismatch,
                     Append(segments, seg.path))

chainSegments(t, nodeUsage, cap, sc, stops, i, mismatch, segments) ==
  IF i >= Len(stops) THEN PathResult("found", mergeSegments(segments, 1), sc)
  ELSE segmentDone(t, nodeUsage, cap, stops, i, mismatch, segments,
                   aStar(t, nodeUsage, cap, sc, stops[i], stops[i + 1], mismatch))

\* buildLoop for the picks sideA = [a1, a2], sideB = [b1, b2].
buildLoop(t, nodeUsage, cap, sc, sideA, sideB, mismatch) ==
  IF sideA = NullPair \/ sideB = NullPair THEN PathResult("failed", <<>>, sc)
  ELSE chainSegments(t, nodeUsage, cap, sc,
                     <<sideA[1], sideA[2], sideB[1], sideB[2], sideA[1]>>, 1,
                     mismatch, <<>>)

(***************************************************************************)
(* The worker and its host.                                                *)
(***************************************************************************)
VARIABLES
  activeToken,   \* module-level cancellation token
  inbox,         \* messages posted by the host, not yet handled
  outbox,        \* messages posted by the worker, in emission order
  sent,          \* host: the build request of every id it has used
  posts,         \* host: number of messages posted
  supersededAt,  \* per build id: Len(outbox) when the host first posted a
                 \* message while that build was running, else -1
  cancelledAt,   \* per build id: the poll that saw the token mismatch
  pc,            \* "idle", or the position inside buildPaths
  cur,           \* the build being handled: its message and captured token
  nodeUsage,
  scratch,       \* parents, closed, gScore, gStamp, stamp
  placed, pairTries, pairStart, pairEnd, attempts

hostVars == <<inbox, sent, posts, supersededAt>>
loopVars == <<placed, pairTries, pairStart, pairEnd, attempts>>
buildVars == <<cur, nodeUsage, scratch, placed, pairTries, pairStart, pairEnd,
               attempts>>
vars == <<activeToken, inbox, outbox, sent, posts, supersededAt, cancelledAt,
          pc, cur, nodeUsage, scratch, placed, pairTries, pairStart, pairEnd,
          attempts>>

\* The build requests the host chooses from: grid (index into Grids),
\* maxPaths, maxTries, maxPathsPerVertex.
BuildInputs ==
  <<[grid |-> 1, maxPaths |-> 3, maxTries |-> 1, maxPathsPerVertex |-> 1],
    [grid |-> 1, maxPaths |-> 1, maxTries |-> 2, maxPathsPerVertex |-> 0],
    [grid |-> 2, maxPaths |-> 1, maxTries |-> 1, maxPathsPerVertex |-> 2],
    [grid |-> 3, maxPaths |-> 1, maxTries |-> 1, maxPathsPerVertex |-> 1],
    [grid |-> 4, maxPaths |-> 1, maxTries |-> 1, maxPathsPerVertex |-> 1],
    [grid |-> 5, maxPaths |-> 1, maxTries |-> 1, maxPathsPerVertex |-> 1],
    [grid |-> 6, maxPaths |-> 1, maxTries |-> 1, maxPathsPerVertex |-> 1],
    [grid |-> 7, maxPaths |-> 1, maxTries |-> 1, maxPathsPerVertex |-> 1],
    [grid |-> 1, maxPaths |-> 0 - 1, maxTries |-> 1, maxPathsPerVertex |-> 1],
    [grid |-> 3, maxPaths |-> 1, maxTries |-> 1, maxPathsPerVertex |-> 2],
    [grid |-> 13, maxPaths |-> 1, maxTries |-> 2, maxPathsPerVertex |-> 1]>>

\* The build requests of the host of SpecHoles.
HoleInputs ==
  <<[grid |-> 8, maxPaths |-> 2, maxTries |-> 1, maxPathsPerVertex |-> 1],
    [grid |-> 9, maxPaths |-> 1, maxTries |-> 1, maxPathsPerVertex |-> 1],
    [grid |-> 10, maxPaths |-> 1, maxTries |-> 1, maxPathsPerVertex |-> 1],
    [grid |-> 11, maxPaths |-> 1, maxTries |-> 1, maxPathsPerVertex |-> 1],
    [grid |-> 14, maxPaths |-> 1, maxTries |-> 1, maxPathsPerVertex |-> 1]>>

BuildMessage(id, in) ==
  [type |-> "build", id |-> id, grid |-> in.grid, maxPaths |-> in.maxPaths,
   maxTries |-> in.maxTries, maxPathsPerVertex |-> in.maxPathsPerVertex]

CancelMessage(id) ==
  [type |-> "cancel", id |-> id, grid |-> 0, maxPaths |-> 0, maxTries |-> 0,
   maxPathsPerVertex |-> 0]

\* Outbound messages, one record shape for the four types.
Outbound(type, id, stage, placed_, validCount, path, attempts_, maxAttempts_) ==
  [type |-> type, id |-> id, stage |-> stage, placed |-> placed_,
   validCount |-> validCount, path |-> path, attempts |-> attempts_,
   maxAttempts |-> maxAttempts_]

DebugMessage(id, stage, placed_, validCount, attempts_, maxAttempts_) ==
  Outbound("debug", id, stage, placed_, validCount, <<>>, attempts_, maxAttempts_)
PathMessage(id, path) == Outbound("path", id, "", 0, 0, path, 0, 0)
DoneMessage(id, placed_, validCount) ==
  Outbound("done", id, "", placed_, validCount, <<>>, 0, 0)
ErrorMessage(id) == Outbound("error", id, "", 0, 0, <<>>, 0, 0)

NoBuild == [id |-> 0, grid |-> 0, maxPaths |-> 0, maxTries |-> 0,
            maxPathsPerVertex |-> 0, token |-> 0]

\* Math.min(0xffff, Math.max(1, Math.round(message.maxPathsPerVertex)))
effectiveCap(raw) == Min2(65535, Max2(1, raw))

maxAttempts == Max2(1, cur.maxPaths * cur.maxTries)
useLoopPaths == Grids[cur.grid].twoSided
tokenMismatch == cur.token # activeToken

Init ==
  /\ activeToken = 0
  /\ inbox = <<>>
  /\ outbox = <<>>
  /\ sent = <<>>
  /\ posts = 0
  /\ supersededAt = [id \in 1..MaxSends |-> 0 - 1]
  /\ cancelledAt = [id \in 1..MaxSends |-> "none"]
  /\ pc = "idle"
  /\ cur = NoBuild
  /\ nodeUsage = <<>>
  /\ scratch = NoScratch
  /\ placed = 0 /\ pairTries = 0 /\ pairStart = NoNode /\ pairEnd = NoNode
  /\ attempts = 0

\* The locals of buildPaths are dropped when it returns.
Returned ==
  /\ pc' = "idle"
  /\ cur' = NoBuild
  /\ nodeUsage' = <<>>
  /\ scratch' = NoScratch
  /\ placed' = 0 /\ pairTries' = 0 /\ pairStart' = NoNode /\ pairEnd' = NoNode
  /\ attempts' = 0

\* `return` at the poll named poll, which saw token !== activeToken.
ReturnedSilently(poll) ==
  /\ outbox' = outbox
  /\ cancelledAt' = [cancelledAt EXCEPT ![cur.id] = poll]
  /\ Returned

\* A post of the host while a build runs is the first one to supersede it.
noteSupersede ==
  supersededAt' =
    IF pc # "idle" /\ supersededAt[cur.id] = 0 - 1
    THEN [supersededAt EXCEPT ![cur.id] = Len(outbox)]
    ELSE supersededAt

(***************************************************************************)
(* Host: posts a build (with a fresh id) or a cancel at any moment.        *)
(***************************************************************************)
sendBuildOf(inputs) ==
  /\ posts < MaxSends
  /\ \E k \in DOMAIN inputs :
        /\ inbox' = Append(inbox, BuildMessage(Len(sent) + 1, inputs[k]))
        /\ sent' = Append(sent, inputs[k])
  /\ posts' = posts + 1
  /\ noteSupersede
  /\ UNCHANGED <<activeToken, outbox, cancelledAt, pc, buildVars>>

SendBuild == sendBuildOf(BuildInputs)

SendCancel ==
  /\ posts < MaxSends
  /\ inbox' = Append(inbox, CancelMessage(Len(sent)))
  /\ posts' = posts + 1
  /\ noteSupersede
  /\ UNCHANGED <<activeToken, outbox, sent, cancelledAt, pc, buildVars>>

\* Variant of HandleCancel: the token is advanced twice.
HandleCancelTwice ==
  /\ pc = "idle"
  /\ inbox # <<>>
  /\ Head(inbox).type = "cancel"
  /\ activeToken' = activeToken + 2
  /\ inbox' = Tail(inbox)
  /\ UNCHANGED <<outbox, sent, posts, supersededAt, cancelledAt, pc, buildVars>>

(***************************************************************************)
(* ctx.onmessage.  A message is taken only when no build is being handled: *)
(* buildPaths is synchronous, so the handler runs to completion first.     *)
(***************************************************************************)
\* Variant of HandleCancel: the handler runs whether or not a build is being
\* handled.
HandleCancelAnytime ==
  /\ inbox # <<>>
  /\ Head(inbox).type = "cancel"
  /\ activeToken' = activeToken + 1
  /\ inbox' = Tail(inbox)
  /\ UNCHANGED <<outbox, sent, posts, supersededAt, cancelledAt, pc, buildVars>>

HandleCancel ==
  /\ pc = "idle"
  /\ inbox # <<>>
  /\ Head(inbox).type = "cancel"
  /\ activeToken' = activeToken + 1
  /\ inbox' = Tail(inbox)
  /\ UNCHANGED <<outbox, sent, posts, supersededAt, cancelledAt, pc, buildVars>>

\* Payloads of earlier builds are of no further interest to the worker: the
\* host's log keeps their headers only.
headersOf(log) == [i \in DOMAIN log |-> [log[i] EXCEPT !.path = <<>>]]

\* Variant of startBuild without the try/catch of onmessage: the exception
\* ends the handler and nothing is posted.
startBuildUncaught(message, g, token) ==
  IF ThrowsBeforeStart(g)
  THEN /\ outbox' = headersOf(outbox)
       /\ Returned
  ELSE /\ outbox' = Append(headersOf(outbox),
                           DebugMessage(message.id, "start", 0, 0, 0, 0))
       /\ pc' = "started"
       /\ cur' = [id |-> message.id, grid |-> message.grid,
                  maxPaths |-> message.maxPaths,
                  maxTries |-> message.maxTries,
                  maxPathsPerVertex |-> effectiveCap(message.maxPathsPerVertex),
                  token |-> token]
       /\ nodeUsage' = [n \in Nodes(g) |-> 0]
       /\ UNCHANGED <<scratch, loopVars>>

\* Variant of startBuild: the usage table is not a fresh one.
startBuildUsed(message, g, token) ==
  IF ThrowsBeforeStart(g)
  THEN /\ outbox' = Append(headersOf(outbox), ErrorMessage(message.id))
       /\ Returned
  ELSE /\ outbox' = Append(headersOf(outbox),
                           DebugMessage(message.id, "start", 0, 0, 0, 0))
       /\ pc' = "started"
       /\ cur' = [id |-> message.id, grid |-> message.grid,
                  maxPaths |-> message.maxPaths,
                  maxTries |-> message.maxTries,
                  maxPathsPerVertex |-> effectiveCap(message.maxPathsPerVertex),
                  token |-> token]
       /\ nodeUsage' = [n \in Nodes(g) |-> IF message.id > 1 THEN 1 ELSE 0]
       /\ UNCHANGED <<scratch, loopVars>>

\* buildPaths up to its first postMessage for the message and the grid g it
\* names: the `start` debug message, or the error of an exception thrown
\* before it.
startBuild(message, g, token) ==
  IF ThrowsBeforeStart(g)
  THEN /\ outbox' = Append(headersOf(outbox), ErrorMessage(message.id))
       /\ Returned
  ELSE /\ outbox' = Append(headersOf(outbox),
                           DebugMessage(message.id, "start", 0, 0, 0, 0))
       /\ pc' = "started"
       /\ cur' = [id |-> message.id, grid |-> message.grid,
                  maxPaths |-> message.maxPaths,
                  maxTries |-> message.maxTries,
                  maxPathsPerVertex |-> effectiveCap(message.maxPathsPerVertex),
                  token |-> token]
       /\ nodeUsage' = [n \in Nodes(g) |-> 0]
       /\ UNCHANGED <<scratch, loopVars>>

HandleBuild ==
  /\ pc = "idle"
  /\ inbox # <<>>
  /\ Head(inbox).type = "build"
  /\ activeToken' = activeToken + 1
  /\ inbox' = Tail(inbox)
  /\ startBuild(Head(inbox), Grids[Head(inbox).grid], activeToken + 1)
  /\ UNCHANGED <<sent, posts, supersededAt, cancelledAt>>

\* Variant of doneMessages: `done` posted before the debug message.
doneMessagesSwapped(validCount, placed_, attempts_, maxAttempts_) ==
  <<DoneMessage(cur.id, placed_, validCount),
    DebugMessage(cur.id, "done", placed_, validCount, attempts_, maxAttempts_)>>

\* debug `done` followed by `done`.
doneMessages(validCount, placed_, attempts_, maxAttempts_) ==
  <<DebugMessage(cur.id, "done", placed_, validCount, attempts_, maxAttempts_),
    DoneMessage(cur.id, placed_, validCount)>>

\* Variant of noEndpoints: only the loop-mode test is made.
noEndpointsLoopOnly(t) ==
  t.grid.twoSided /\ (Len(t.startPool) < 2 \/ Len(t.endPool) < 2)

\* The tests before the placement loop that end the build with placed = 0.
noEndpoints(t) ==
  \/ Len(t.startPool) = 0 \/ Len(t.endPool) = 0
  \/ (t.grid.twoSided /\ (Len(t.startPool) < 2 \/ Len(t.endPool) < 2))

\* World transform, classification, `valid` debug message and the two
\* empty-pool exits, for the tables t of the build.  shouldCancel polls at
\* the first vertex.
classifyAndStart(t) ==
  IF ThrowsAfterStart(t.grid)
  THEN /\ outbox' = Append(outbox, ErrorMessage(cur.id))
       /\ Returned
       /\ UNCHANGED cancelledAt
  ELSE IF t.totalVertices > 0 /\ tokenMismatch
  THEN ReturnedSilently("prescan")
  ELSE IF noEndpoints(t)
  THEN /\ outbox' = outbox
                    \o <<DebugMessage(cur.id, "valid", 0, t.validCount, 0, 0)>>
                    \o doneMessages(t.validCount, 0, 0, 0)
       /\ Returned
       /\ UNCHANGED cancelledAt
  ELSE /\ outbox' = Append(outbox,
                      DebugMessage(cur.id, "valid", 0, t.validCount, 0, 0))
       /\ pc' = "loop"
       /\ scratch' = freshScratch(t)
       /\ placed' = 0 /\ pairTries' = 0 /\ pairStart' = NoNode
       /\ pairEnd' = NoNode /\ attempts' = 0
       /\ UNCHANGED <<cur, nodeUsage, cancelledAt>>

Classify ==
  /\ pc = "started"
  /\ classifyAndStart(Tables[cur.grid])
  /\ UNCHANGED <<activeToken, hostVars>>

(***************************************************************************)
(* Placement loop.  LoopHead is the head of one iteration (the `while`     *)
(* test, the token test, the attempt budget, the pair selection) and,      *)
(* when the loop ends there, the code after the loop.  Search is the rest  *)
(* of the iteration: the search and the handling of its result.            *)
(***************************************************************************)
\* Variant of needNewPair: a pair is given up at its first failure.
needNewPairAfterFailure ==
  pairStart = NoNode \/ pairEnd = NoNode \/ pairTries >= 1

needNewPair == pairStart = NoNode \/ pairEnd = NoNode \/ pairTries >= cur.maxTries

pairChoices(t) ==
  IF useLoopPaths \/ ~needNewPair THEN {<<pairStart, pairEnd>>}
  ELSE selectPair(t.startPool, t.endPool, t.grid.twoSided, nodeUsage,
                  cur.maxPathsPerVertex)

\* Variant of budgetSpent: the budget is one attempt short.
budgetSpentEarly == attempts >= maxAttempts - 1

\* `if (attempts >= maxAttempts) break;`
budgetSpent == attempts >= maxAttempts

\* Variant of afterLoop: the last token test does not return.
afterLoopUnchecked(t) ==
  /\ outbox' = outbox \o doneMessages(t.validCount, placed, attempts,
                                       maxAttempts)
  /\ cancelledAt' = IF tokenMismatch
                    THEN [cancelledAt EXCEPT ![cur.id] = "final"]
                    ELSE cancelledAt
  /\ Returned

\* The code after the loop: the last token test, then the two messages.
afterLoop(t) ==
  IF tokenMismatch THEN ReturnedSilently("final")
  ELSE /\ outbox' = outbox \o doneMessages(t.validCount, placed, attempts,
                                           maxAttempts)
       /\ Returned
       /\ UNCHANGED cancelledAt

iterate(t, pair) ==
  IF placed < cur.maxPaths /\ tokenMismatch
  THEN ReturnedSilently("loop")
  ELSE IF \/ ~(placed < cur.maxPaths)
          \/ budgetSpent
          \/ (~useLoopPaths /\ pair = NullPair)
  THEN afterLoop(t)
  ELSE /\ pc' = "search"
       /\ pairStart' = pair[1]
       /\ pairEnd' = pair[2]
       /\ pairTries' = IF ~useLoopPaths /\ needNewPair THEN 0 ELSE pairTries
       /\ UNCHANGED <<outbox, cancelledAt, cur, nodeUsage, scratch, placed,
                      attempts>>

loopHead(t) == \E pair \in pairChoices(t) : iterate(t, pair)

LoopHead ==
  /\ pc = "loop"
  /\ loopHead(Tables[cur.grid])
  /\ UNCHANGED <<activeToken, hostVars>>

\* Variant of accept: the path is posted but not counted.
acceptUncounted(result) ==
  /\ outbox' = outbox
               \o (IF placed = 0
                   THEN <<DebugMessage(cur.id, "path", 0, 0, 0, 0)>>
                   ELSE <<>>)
               \o <<PathMessage(cur.id, result.path)>>
  /\ nodeUsage' = blockPath(nodeUsage, cur.maxPathsPerVertex, result.path)
  /\ placed' = placed
  /\ IF useLoopPaths
     THEN UNCHANGED <<pairStart, pairEnd, pairTries>>
     ELSE pairStart' = NoNode /\ pairEnd' = NoNode /\ pairTries' = 0
  /\ scratch' = result.scratch
  /\ pc' = "loop"
  /\ UNCHANGED <<cancelledAt, cur, attempts>>

\* Variant of accept: the debug message of the first path follows it.
acceptPathFirst(result) ==
  /\ outbox' = outbox
               \o <<PathMessage(cur.id, result.path)>>
               \o (IF placed = 0
                   THEN <<DebugMessage(cur.id, "path", 0, 0, 0, 0)>>
                   ELSE <<>>)
  /\ nodeUsage' = blockPath(nodeUsage, cur.maxPathsPerVertex, result.path)
  /\ placed' = placed + 1
  /\ IF useLoopPaths
     THEN UNCHANGED <<pairStart, pairEnd, pairTries>>
     ELSE pairStart' = NoNode /\ pairEnd' = NoNode /\ pairTries' = 0
  /\ scratch' = result.scratch
  /\ pc' = "loop"
  /\ UNCHANGED <<cancelledAt, cur, attempts>>

\* `found`: the path is blocked, posted and counted.
accept(result) ==
  /\ outbox' = outbox
               \o (IF placed = 0
                   THEN <<DebugMessage(cur.id, "path", 0, 0, 0, 0)>>
                   ELSE <<>>)
               \o <<PathMessage(cur.id, result.path)>>
  /\ nodeUsage' = blockPath(nodeUsage, cur.maxPathsPerVertex, result.path)
  /\ placed' = placed + 1
  /\ IF useLoopPaths
     THEN UNCHANGED <<pairStart, pairEnd, pairTries>>
     ELSE pairStart' = NoNode /\ pairEnd' = NoNode /\ pairTries' = 0
  /\ scratch' = result.scratch
  /\ pc' = "loop"
  /\ UNCHANGED <<cancelledAt, cur, attempts>>

\* Variant of reject: the failed attempt is not counted.
rejectUncounted(result) ==
  /\ pairTries' = pairTries
  /\ attempts' = attempts
  /\ scratch' = result.scratch
  /\ pc' = "loop"
  /\ UNCHANGED <<outbox, cancelledAt, cur, nodeUsage, placed, pairStart,
                 pairEnd>>

\* Variant of reject: the pair is given up at its first failure.
rejectPairDropped(result) ==
  /\ pairTries' = IF useLoopPaths THEN pairTries ELSE pairTries + 1
  /\ attempts' = attempts + 1
  /\ scratch' = result.scratch
  /\ pc' = "loop"
  /\ pairStart' = NoNode /\ pairEnd' = NoNode
  /\ UNCHANGED <<outbox, cancelledAt, cur, nodeUsage, placed>>

\* `failed`: the attempt is counted.
reject(result) ==
  /\ pairTries' = IF useLoopPaths THEN pairTries ELSE pairTries + 1
  /\ attempts' = attempts + 1
  /\ scratch' = result.scratch
  /\ pc' = "loop"
  /\ UNCHANGED <<outbox, cancelledAt, cur, nodeUsage, placed, pairStart,
                 pairEnd>>

\* What the iteration does with the result of its search.
takeResult(result) ==
  IF result.status = "cancelled" THEN ReturnedSilently("search")
  ELSE IF result.status = "found" THEN accept(result)
  ELSE reject(result)

\* The picks of buildLoop from pool; none in single-path mode.
sidePicks(pool) ==
  IF useLoopPaths THEN pickDistinct(pool, nodeUsage, cur.maxPathsPerVertex)
  ELSE {NullPair}

searchResult(t, sideA, sideB) ==
  IF useLoopPaths
  THEN buildLoop(t, nodeUsage, cur.maxPathsPerVertex, scratch, sideA, sideB,
                 tokenMismatch)
  ELSE aStar(t, nodeUsage, cur.maxPathsPerVertex, scratch, pairStart, pairEnd,
             tokenMismatch)

search(t) ==
  \E sideA \in sidePicks(t.startPool), sideB \in sidePicks(t.endPool) :
     takeResult(searchResult(t, sideA, sideB))

Search ==
  /\ pc = "search"
  /\ search(Tables[cur.grid])
  /\ UNCHANGED <<activeToken, hostVars>>

Next ==
  \/ SendBuild
  \/ SendCancel
  \/ HandleCancel
  \/ HandleBuild
  \/ Classify
  \/ LoopHead
  \/ Search

Spec == Init /\ [][Next]_vars

(***************************************************************************)
(* The worker with its polls exercised.  Under Spec no poll ever sees a    *)
(* token other than its own, because onmessage never runs inside           *)
(* buildPaths.  SpecPreempt lets the cancel branch of onmessage run        *)
(* between two steps of a build, which is the only way for the polls of    *)
(* buildPaths to see a mismatch.                                           *)
(***************************************************************************)
CancelDuringBuild ==
  /\ pc # "idle"
  /\ inbox # <<>>
  /\ Head(inbox).type = "cancel"
  /\ activeToken' = activeToken + 1
  /\ inbox' = Tail(inbox)
  /\ UNCHANGED <<outbox, sent, posts, supersededAt, cancelledAt, pc, buildVars>>

NextPreempt ==
  \/ Next
  \/ CancelDuringBuild

SpecPreempt == Init /\ [][NextPreempt]_vars

(***************************************************************************)
(* The worker with a host that builds on the grids with hole cells only:   *)
(* the searches through hole-center nodes on several levels and at the rim *)
(* of the lattice, and the classification of pure hole fields.             *)
(***************************************************************************)
SendHoleBuild == sendBuildOf(HoleInputs)

NextHoles ==
  \/ SendHoleBuild
  \/ SendCancel
  \/ HandleCancel
  \/ HandleBuild
  \/ Classify
  \/ LoopHead
  \/ Search

SpecHoles == Init /\ [][NextHoles]_vars

(***************************************************************************)
(* aStar on its own.  buildPaths calls aStar only with endpoints below the *)
(* cap and at most a few thousand times per build, so the early return of  *)
(* the endpoint test and the stamp reset are out of the reach of a build   *)
(* of the sizes above.  Here aStar is called directly: a usage table and   *)
(* the endpoints are drawn freely, the scratch arrays are carried from     *)
(* call to call, and the calls that only advance the stamp are taken in    *)
(* one step.  The results of the calls are logged in outbox (type = status *)
(* of the result), the endpoints of the last call are kept in pairStart    *)
(* and pairEnd; placed counts the calls.                                   *)
(***************************************************************************)
\* Bound: the number of searches of one run.
MaxProbes == 3

\* Grid, cap, the sets of nodes at the cap and the endpoints to draw from.
ProbeInputs ==
  <<[grid |-> 1, cap |-> 1, full |-> {{}, {0}, {1}}, ends |-> {0, 2, 4}],
    [grid |-> 8, cap |-> 2, full |-> {{}, {12}, {14}, {3, 13}},
     ends |-> {2, 4, 13}],
    [grid |-> 12, cap |-> 1, full |-> {{}, {12}}, ends |-> {2, 4}],
    [grid |-> 15, cap |-> 1, full |-> {{}}, ends |-> {0, 11}]>>

usageWith(t, cap, full) ==
  [n \in 0..(t.totalNodeCount - 1) |-> IF n \in full THEN cap ELSE 0]

InitProbe ==
  /\ activeToken = 0
  /\ inbox = <<>>
  /\ outbox = <<>>
  /\ sent = <<>>
  /\ posts = 0
  /\ supersededAt = [id \in 1..MaxSends |-> 0 - 1]
  /\ cancelledAt = [id \in 1..MaxSends |-> "none"]
  /\ pc = "search"
  /\ \E k \in DOMAIN ProbeInputs :
        /\ cur = [NoBuild EXCEPT !.id = k, !.grid = ProbeInputs[k].grid,
                                 !.maxPathsPerVertex = ProbeInputs[k].cap]
        /\ \E full \in ProbeInputs[k].full :
              nodeUsage = usageWith(Tables[ProbeInputs[k].grid],
                                    ProbeInputs[k].cap, full)
        /\ scratch = freshScratch(Tables[ProbeInputs[k].grid])
  /\ placed = 0 /\ pairTries = 0 /\ pairStart = NoNode /\ pairEnd = NoNode
  /\ attempts = 0

resultMessage(result) == Outbound(result.status, cur.id, "", 0, 0, result.path, 0, 0)

probe(t, startIndex, endIndex) ==
  /\ pairStart' = startIndex
  /\ pairEnd' = endIndex
  /\ outbox' = Append(outbox,
                      resultMessage(aStar(t, nodeUsage, cur.maxPathsPerVertex,
                                          scratch, startIndex, endIndex,
                                          tokenMismatch)))
  /\ scratch' = aStar(t, nodeUsage, cur.maxPathsPerVertex, scratch,
                      startIndex, endIndex, tokenMismatch).scratch

\* One call aStar(startIndex, endIndex).
ProbeSearch ==
  /\ placed < MaxProbes
  /\ \E startIndex \in ProbeInputs[cur.id].ends,
        endIndex \in ProbeInputs[cur.id].ends :
        probe(Tables[cur.grid], startIndex, endIndex)
  /\ placed' = placed + 1
  /\ UNCHANGED <<activeToken, hostVars, cancelledAt, pc, cur, nodeUsage,
                 pairTries, attempts>>

\* As many calls with a start node at the cap as take the stamp to
\* StampLimit - 1: each of them advances the stamp and returns `failed`.
ProbeSkip ==
  /\ placed < MaxProbes
  /\ scratch.stamp < StampLimit - 1
  /\ \E startIndex \in ProbeInputs[cur.id].ends :
        /\ AtCap(nodeUsage, cur.maxPathsPerVertex, startIndex)
        /\ pairStart' = startIndex
        /\ pairEnd' = startIndex
  /\ scratch' = [scratch EXCEPT !.stamp = StampLimit - 1]
  /\ outbox' = Append(outbox, resultMessage(PathResult("failed", <<>>, scratch')))
  /\ UNCHANGED <<activeToken, hostVars, cancelledAt, pc, cur, nodeUsage,
                 placed, pairTries, attempts>>

NextProbe ==
  \/ ProbeSearch
  \/ ProbeSkip

SpecProbe == InitProbe /\ [][NextProbe]_vars

(***************************************************************************)
(* The open heap on its own: any sequence of heapPush and heapPop.  The    *)
(* heap (heapIndices, heapScores and heapSize) is kept in scratch, the     *)
(* popped entries are logged in outbox in the order of the pops, placed    *)
(* counts the pushes and is the idx of the next entry pushed, so that an   *)
(* idx tells the order of the pushes.                                      *)
(***************************************************************************)
\* Bound: the number of pushes of one run.
MaxPushes == 5

\* The scores (f = g + h) the pushes draw from.
HeapScores == {1, 2}

InitHeap ==
  /\ activeToken = 0
  /\ inbox = <<>>
  /\ outbox = <<>>
  /\ sent = <<>>
  /\ posts = 0
  /\ supersededAt = [id \in 1..MaxSends |-> 0 - 1]
  /\ cancelledAt = [id \in 1..MaxSends |-> "none"]
  /\ pc = "heap"
  /\ cur = NoBuild
  /\ nodeUsage = <<>>
  /\ scratch = emptyHeap(MaxPushes)
  /\ placed = 0 /\ pairTries = 0 /\ pairStart = NoNode /\ pairEnd = NoNode
  /\ attempts = 0

\* heapPush(placed, score)
HeapPush ==
  /\ pc = "heap"
  /\ placed < MaxPushes
  /\ \E score \in HeapScores : scratch' = heapPush(scratch, placed, score)
  /\ placed' = placed + 1
  /\ UNCHANGED <<activeToken, hostVars, outbox, cancelledAt, pc, cur,
                 nodeUsage, pairTries, pairStart, pairEnd, attempts>>

\* heapPop() of a non-empty heap (heapSize > 0, as the main loop of aStar
\* guards it).
HeapPop ==
  /\ pc = "heap"
  /\ scratch.size > 0
  /\ outbox' = Append(outbox, heapEntry(heapPop(scratch).idx,
                                        heapPop(scratch).score))
  /\ scratch' = heapPop(scratch).heap
  /\ UNCHANGED <<activeToken, hostVars, cancelledAt, pc, cur, nodeUsage,
                 placed, pairTries, pairStart, pairEnd, attempts>>

NextHeap ==
  \/ HeapPush
  \/ HeapPop

SpecHeap == InitHeap /\ [][NextHeap]_vars

(***************************************************************************)
(* The row range of the broad phase of segmentHitsBuildings on its own.    *)
(* Z values are integers in units of 0.2e-6, so that the tolerance 1e-6 of *)
(* the monotonicity test is RowEps units.  The row bounds rowWorldMinZ,    *)
(* rowWorldMaxZ and rowWorldMonotonic are kept in scratch, the Z range of  *)
(* the last segment in pairStart (segmentMinZ) and pairEnd (segmentMaxZ),  *)
(* and the rows the loop over [minRow, maxRow] visits for it in outbox.    *)
(***************************************************************************)
RowEps == 5

\* Bound: the largest number of rows (gridZ).
MaxRows == 3

\* The values the row bounds and the segment ends draw from.  No two row
\* values differ by exactly RowEps.
RowValues == {0, 2, 6}
SegmentValues == {0, 1, 3, 6}

\* `rowWorldMonotonic`: no bound drops by more than the tolerance from one
\* row to the next.
monotonicRows(minZ, maxZ) ==
  \A row \in DOMAIN minZ :
     row > 0 => ~(\/ minZ[row] < minZ[row - 1] - RowEps
                  \/ maxZ[row] < maxZ[row - 1] - RowEps)

rowBounds(minZ, maxZ) ==
  [gridZ |-> Cardinality(DOMAIN minZ),
   rowWorldMinZ |-> minZ,
   rowWorldMaxZ |-> maxZ,
   rowWorldMonotonic |-> monotonicRows(minZ, maxZ)]

RECURSIVE findMinRowIn(_, _, _, _, _)
findMinRowIn(r, segmentMinZ, low, high, result) ==
  IF low > high THEN result
  ELSE IF r.rowWorldMaxZ[(low + high) \div 2] >= segmentMinZ
  THEN findMinRowIn(r, segmentMinZ, low, ((low + high) \div 2) - 1,
                    (low + high) \div 2)
  ELSE findMinRowIn(r, segmentMinZ, ((low + high) \div 2) + 1, high, result)

findMinRow(r, segmentMinZ) ==
  IF ~r.rowWorldMonotonic THEN 0
  ELSE findMinRowIn(r, segmentMinZ, 0, r.gridZ - 1, r.gridZ)

RECURSIVE findMaxRowIn(_, _, _, _, _)
findMaxRowIn(r, segmentMaxZ, low, high, result) ==
  IF low > high THEN result
  ELSE IF r.rowWorldMinZ[(low + high) \div 2] <= segmentMaxZ
  THEN findMaxRowIn(r, segmentMaxZ, ((low + high) \div 2) + 1, high,
                    (low + high) \div 2)
  ELSE findMaxRowIn(r, segmentMaxZ, low, ((low + high) \div 2) - 1, result)

findMaxRow(r, segmentMaxZ) ==
  IF ~r.rowWorldMonotonic THEN r.gridZ - 1
  ELSE findMaxRowIn(r, segmentMaxZ, 0, r.gridZ - 1, 0 - 1)

\* The rows the linear scan keeps.
scannedRows(r, segmentMinZ, segmentMaxZ) ==
  {row \in 0..(r.gridZ - 1) :
     ~(segmentMaxZ < r.rowWorldMinZ[row] \/ segmentMinZ > r.rowWorldMaxZ[row])}

\* minRow and maxRow of the linear scan.
scanMinRow(r, rows) ==
  IF rows = {} THEN r.gridZ
  ELSE CHOOSE row \in rows : \A other \in rows : row <= other

scanMaxRow(r, rows) ==
  IF rows = {} THEN 0 - 1
  ELSE CHOOSE row \in rows : \A other \in rows : row >= other

\* minRow and maxRow before the range test.
rowRange(r, segmentMinZ, segmentMaxZ) ==
  IF r.rowWorldMonotonic
  THEN [minRow |-> findMinRow(r, segmentMinZ),
        maxRow |-> findMaxRow(r, segmentMaxZ)]
  ELSE [minRow |-> scanMinRow(r, scannedRows(r, segmentMinZ, segmentMaxZ)),
        maxRow |-> scanMaxRow(r, scannedRows(r, segmentMinZ, segmentMaxZ))]

\* The rows of the loop `for (let z = minRow; z <= maxRow; z += 1)`, none
\* when the range test returns false.
candidateRows(r, range) ==
  IF range.minRow > range.maxRow \/ range.minRow >= r.gridZ
     \/ range.maxRow < 0
  THEN {}
  ELSE Max2(0, range.minRow)..Min2(r.gridZ - 1, range.maxRow)

InitRows ==
  /\ activeToken = 0
  /\ inbox = <<>>
  /\ outbox = <<>>
  /\ sent = <<>>
  /\ posts = 0
  /\ supersededAt = [id \in 1..MaxSends |-> 0 - 1]
  /\ cancelledAt = [id \in 1..MaxSends |-> "none"]
  /\ pc = "rows"
  /\ cur = NoBuild
  /\ nodeUsage = <<>>
  /\ \E gridZ \in 1..MaxRows :
        \E minZ \in [0..(gridZ - 1) -> RowValues],
           maxZ \in [0..(gridZ - 1) -> RowValues] :
           /\ \A row \in 0..(gridZ - 1) : minZ[row] <= maxZ[row]
           /\ scratch = rowBounds(minZ, maxZ)
  /\ placed = 0 /\ pairTries = 0 /\ pairStart = NoNode /\ pairEnd = NoNode
  /\ attempts = 0

\* The row range of one call of segmentHitsBuildings.
RowSearch ==
  /\ pc = "rows"
  /\ \E segmentMinZ \in SegmentValues, segmentMaxZ \in SegmentValues :
        /\ segmentMinZ <= segmentMaxZ
        /\ pairStart' = segmentMinZ
        /\ pairEnd' = segmentMaxZ
        /\ outbox' = <<candidateRows(scratch,
                                     rowRange(scratch, segmentMinZ,
                                              segmentMaxZ))>>
  /\ UNCHANGED <<activeToken, hostVars, cancelledAt, pc, cur, nodeUsage,
                 scratch, placed, pairTries, attempts>>

SpecRows == InitRows /\ [][RowSearch]_vars

(***************************************************************************)
(* segmentIntersectsFrustum on its own.  Coordinates and half-extents are  *)
(* integers.  A clip parameter t = num / denom is kept exactly: EPS is an  *)
(* infinitesimal, a parameter is the fraction (p + q * EPS) / d with d > 0 *)
(* and parameters are compared by cross-multiplication; the side planes    *)
(* are scaled by height, which leaves num / denom as it is.  The box is    *)
(* kept in scratch, the ends of the last segment in pairStart and pairEnd  *)
(* and the result of the test in outbox.                                   *)
(***************************************************************************)
param(p, q, d) ==
  IF d > 0 THEN [p |-> p, q |-> q, d |-> d]
  ELSE [p |-> 0 - p, q |-> 0 - q, d |-> 0 - d]

paramLess(a, b) ==
  \/ a.p * b.d < b.p * a.d
  \/ (a.p * b.d = b.p * a.d /\ a.q * b.d < b.q * a.d)

\* clip(nx, ny, nz, d) of a segment from (x0, y0, z0) in direction
\* (dx, dy, dz) with d = plane + slack * EPS; iv is [t0, t1] and whether no
\* clip so far has returned false.
clip(iv, s, nx, ny, nz, plane, slack) ==
  LET denom == nx * (s.x1 - s.x0) + ny * (s.y1 - s.y0) + nz * (s.z1 - s.z0)
      num == plane - (nx * s.x0 + ny * s.y0 + nz * s.z0)
      t == param(num, slack, denom)
  IN IF ~iv.inside THEN iv
     ELSE IF denom = 0 THEN [iv EXCEPT !.inside = ~(num < 0)]
     ELSE IF denom > 0
     THEN [t0 |-> iv.t0,
           t1 |-> IF paramLess(t, iv.t1) THEN t ELSE iv.t1,
           inside |-> ~paramLess(IF paramLess(t, iv.t1) THEN t ELSE iv.t1,
                                 iv.t0)]
     ELSE [t0 |-> IF paramLess(iv.t0, t) THEN t ELSE iv.t0,
           t1 |-> iv.t1,
           inside |-> ~paramLess(iv.t1,
                                 IF paramLess(iv.t0, t) THEN t ELSE iv.t0)]

\* The six clips, in the order of the code.
clipAll(s, b, height, riseX, riseZ) ==
  clip(clip(clip(clip(clip(clip([t0 |-> param(0, 0, 1), t1 |-> param(1, 0, 1),
                                 inside |-> TRUE],
                                s, 0, 1, 0, b.yMax, 1),
                           s, 0, 0 - 1, 0, 0 - b.yMin, 1),
                      s, height, 0 - riseX, 0,
                      b.baseHalfX * height - riseX * b.yMin, height),
                 s, 0 - height, 0 - riseX, 0,
                 b.baseHalfX * height - riseX * b.yMin, height),
            s, 0, 0 - riseZ, height,
            b.baseHalfZ * height - riseZ * b.yMin, height),
       s, 0, 0 - riseZ, 0 - height,
       b.baseHalfZ * height - riseZ * b.yMin, height)

segmentIntersectsFrustum(s, b) ==
  IF b.yMax <= b.yMin THEN FALSE
  ELSE IF b.baseHalfX <= 0 \/ b.baseHalfZ <= 0 \/ b.topHalfX <= 0
          \/ b.topHalfZ <= 0
  THEN FALSE
  ELSE LET iv == clipAll(s, b, b.yMax - b.yMin, b.topHalfX - b.baseHalfX,
                         b.topHalfZ - b.baseHalfZ)
       IN /\ iv.inside
          /\ ~paramLess(iv.t1, param(0, 0, 1))
          /\ ~paramLess(param(1, 0, 1), iv.t0)

\* Top half-extent of the geometry deriver, base * max(0, 1 - taper) with
\* the taper given in halves (0, 1/2, 1 after clamp01).
topHalfOf(baseHalf, taperHalves) ==
  (baseHalf * Max2(0, 2 - taperHalves)) \div 2

\* The boxes: base half-extent 2, height 2, every taper of X and of Z.
FrustumBoxes ==
  {[yMin |-> 0, yMax |-> 2, baseHalfX |-> 2, baseHalfZ |-> 2,
    topHalfX |-> topHalfOf(2, taperX), topHalfZ |-> topHalfOf(2, taperZ)] :
     taperX \in 0..2, taperZ \in 0..2}

\* The ends of the segments.
FrustumPoints == {0 - 3, 0, 3} \X {0 - 1, 1, 3} \X {0 - 3, 0, 3}

segmentOf(a, b) ==
  [x0 |-> a[1], y0 |-> a[2], z0 |-> a[3], x1 |-> b[1], y1 |-> b[2], z1 |-> b[3]]

InitFrustum ==
  /\ activeToken = 0
  /\ inbox = <<>>
  /\ outbox = <<>>
  /\ sent = <<>>
  /\ posts = 0
  /\ supersededAt = [id \in 1..MaxSends |-> 0 - 1]
  /\ cancelledAt = [id \in 1..MaxSends |-> "none"]
  /\ pc = "frustum"
  /\ cur = NoBuild
  /\ nodeUsage = <<>>
  /\ scratch \in FrustumBoxes
  /\ placed = 0 /\ pairTries = 0 /\ pairStart = NoNode /\ pairEnd = NoNode
  /\ attempts = 0

\* One call of segmentIntersectsFrustum.
FrustumTest ==
  /\ pc = "frustum"
  /\ \E a \in FrustumPoints, b \in FrustumPoints :
        /\ pairStart' = a
        /\ pairEnd' = b
        /\ outbox' = <<segmentIntersectsFrustum(segmentOf(a, b), scratch)>>
  /\ UNCHANGED <<activeToken, hostVars, cancelledAt, pc, cur, nodeUsage,
                 scratch, placed, pairTries, attempts>>

SpecFrustum == InitFrustum /\ [][FrustumTest]_vars

(***************************************************************************)
(* Vocabulary of the properties.                                           *)
(***************************************************************************)
Ids == 1..Len(sent)
positionsOf(type, id) ==
  {i \in DOMAIN outbox : outbox[i].id = id /\ outbox[i].type = type}
countOf(type, id) == Cardinality(positionsOf(type, id))

\* The build id has been taken from the queue and its handler has returned.
Handled(id) ==
  /\ id \in Ids
  /\ cur.id # id
  /\ \A k \in DOMAIN inbox : ~(inbox[k].type = "build" /\ inbox[k].id = id)

Throws(g) == ThrowsBeforeStart(g) \/ ThrowsAfterStart(g)

\* Appearances of node n in the path messages of build id, with multiplicity.
appearances(n, id) ==
  Cardinality(UNION {{<<i, j>> : j \in {k \in DOMAIN outbox[i].path :
                                          outbox[i].path[k] = n}} :
                     i \in positionsOf("path", id)})

\* The edges of the search graph as the specification describes them.
latticeEdge(g, a, b) ==
  /\ a < totalVertices(g) /\ b < totalVertices(g) /\ a # b
  /\ Abs(IxOf(g, a) - IxOf(g, b)) <= 1
  /\ Abs(IyOf(g, a) - IyOf(g, b)) <= 1
  /\ Abs(IzOf(g, a) - IzOf(g, b)) <= 1
  /\ ~isBoundaryEdge(g, IxOf(g, a), IxOf(g, b), IzOf(g, a), IzOf(g, b))

\* Lattice vertex v and hole-center node h of an adjoining hole cell, same Y.
holeCenterEdge(g, v, h) ==
  /\ v < totalVertices(g) /\ h >= totalVertices(g) /\ h < totalNodeCount(g)
  /\ IyOf(g, v) = (h - totalVertices(g)) % vertexCountY(g)
  /\ (IxOf(g, v) - (holeCells(g)[((h - totalVertices(g)) \div vertexCountY(g)) + 1]
                    % g.gridX)) \in {0, 1}
  /\ (IzOf(g, v) - (holeCells(g)[((h - totalVertices(g)) \div vertexCountY(g)) + 1]
                    \div g.gridX)) \in {0, 1}

verticalHoleEdge(g, a, b) ==
  /\ a >= totalVertices(g) /\ b >= totalVertices(g)
  /\ a < totalNodeCount(g) /\ b < totalNodeCount(g)
  /\ Abs(a - b) = 1
  /\ (a - totalVertices(g)) \div vertexCountY(g)
     = (b - totalVertices(g)) \div vertexCountY(g)

graphEdge(g, a, b) ==
  \/ latticeEdge(g, a, b)
  \/ holeCenterEdge(g, a, b)
  \/ holeCenterEdge(g, b, a)
  \/ verticalHoleEdge(g, a, b)

(***************************************************************************)
(* C1.  In a build, no node appears in the path messages of the build,     *)
(* counted with multiplicity, more often than maxPathsPerVertex (the cap   *)
(* the build works with).  Refuted: a loop-mode path returns to its first  *)
(* node.                                                                   *)
(***************************************************************************)
C1_AppearancesWithinCap ==
  pc # "idle" =>
    \A n \in DOMAIN nodeUsage : appearances(n, cur.id) <= cur.maxPathsPerVertex

(***************************************************************************)
(* C2.  Every consecutive node pair of an emitted path is an edge of the   *)
(* search graph and is not blocked by segmentHitsBuildings.  Refuted: the  *)
(* edges at a hole-center node are never given to the oracle.              *)
(***************************************************************************)
C2_PathsFollowFreeEdges ==
  pc # "idle" =>
    \A i \in positionsOf("path", cur.id) :
       \A j \in 1..(Len(outbox[i].path) - 1) :
          /\ graphEdge(Grids[cur.grid], outbox[i].path[j], outbox[i].path[j + 1])
          /\ ~segmentHitsBuildings(Grids[cur.grid], outbox[i].path[j],
                                   outbox[i].path[j + 1])

(***************************************************************************)
(* C3.  When the host posts a cancel or a new build while build B is       *)
(* running (after its start, before its done), no path and no done of B    *)
(* is emitted after that post.  Refuted: the post is handled only after    *)
(* buildPaths has returned.                                                *)
(***************************************************************************)
C3_NothingAfterSupersede ==
  \A id \in Ids :
     supersededAt[id] >= 0 =>
       \A i \in DOMAIN outbox :
          (i > supersededAt[id] /\ outbox[i].id = id)
            => outbox[i].type \notin {"path", "done"}

(***************************************************************************)
(* C4.  Once done has been emitted for a build id, no message of any type  *)
(* with that id follows.                                                   *)
(***************************************************************************)
C4_NothingAfterDone ==
  \A i \in DOMAIN outbox : \A j \in DOMAIN outbox :
     (i < j /\ outbox[i].type = "done") => outbox[j].id # outbox[i].id

\* A done message that is followed by messages of a later build.
C4_Witness ==
  \E i \in DOMAIN outbox : \E j \in DOMAIN outbox :
     i < j /\ outbox[i].type = "done" /\ outbox[j].type = "done"

(***************************************************************************)
(* C5.  A build whose poll (classifier prescan, A* loop, loop head, check  *)
(* before done) sees a token other than its own returns in that step, and  *)
(* no message with its id is emitted in that step or afterwards.           *)
(***************************************************************************)
C5_SilentAfterMismatch ==
  [][/\ \A i \in DOMAIN outbox' :
           i > Len(outbox) => cancelledAt'[outbox'[i].id] = "none"
     /\ \A id \in DOMAIN cancelledAt :
           cancelledAt'[id] # cancelledAt[id] => (cur.id = id /\ pc' = "idle")]_vars

\* A build that had posted `start` and `valid` and was cancelled by the poll
\* of the A* loop.
C5_Witness ==
  \E id \in Ids :
     /\ cancelledAt[id] = "search"
     /\ countOf("debug", id) = 2
     /\ pc = "idle"

(***************************************************************************)
(* C6.  A build that throws emits exactly one error with its id and no     *)
(* done; no build emits more than one error or an error and a done; and    *)
(* the worker takes the next message afterwards.                           *)
(***************************************************************************)
C6_ErrorOnException ==
  /\ \A id \in Ids :
        /\ countOf("error", id) <= 1
        /\ countOf("error", id) = 1 => countOf("done", id) = 0
        /\ (Handled(id) /\ Throws(Grids[sent[id].grid]))
             => (countOf("error", id) = 1 /\ countOf("done", id) = 0)
  /\ (pc = "idle" /\ inbox # <<>>) => ENABLED (HandleBuild \/ HandleCancel)

\* An error of one build followed by the done of the next one.
C6_Witness ==
  \E i \in DOMAIN outbox : \E j \in DOMAIN outbox :
     /\ i < j
     /\ outbox[i].type = "error"
     /\ outbox[j].type = "done"
     /\ outbox[j].id # outbox[i].id

(***************************************************************************)
(* C7.  A build whose start pool or end pool is empty never reaches the    *)
(* placement loop or a search, and ends with no path, no error and one     *)
(* done with placed = 0.                                                   *)
(***************************************************************************)
C7_EmptyPoolsEndWithDone ==
  /\ pc \in {"loop", "search"} =>
       (Len(Tables[cur.grid].startPool) > 0 /\ Len(Tables[cur.grid].endPool) > 0)
  /\ \A id \in Ids :
        (/\ Handled(id)
         /\ ~Throws(Grids[sent[id].grid])
         /\ (\/ Len(Tables[sent[id].grid].startPool) = 0
             \/ Len(Tables[sent[id].grid].endPool) = 0))
        => /\ countOf("path", id) = 0
           /\ countOf("error", id) = 0
           /\ countOf("done", id) = 1
           /\ \A i \in positionsOf("done", id) : outbox[i].placed = 0

\* A handled build on a grid without any clear vertex.
C7_Witness ==
  \E id \in Ids :
     /\ Handled(id)
     /\ ~Throws(Grids[sent[id].grid])
     /\ Len(Tables[sent[id].grid].startPool) = 0
     /\ countOf("done", id) = 1

(***************************************************************************)
(* C8.  The placed field of done is the number of path messages of the     *)
(* build, every accepted path is one path message (the counter of the      *)
(* running build equals the number of its path messages), and placed is    *)
(* at most max(0, maxPaths).                                               *)
(***************************************************************************)
C8_PlacedCountsPaths ==
  /\ pc \in {"loop", "search"} => placed = countOf("path", cur.id)
  /\ \A i \in DOMAIN outbox :
        outbox[i].type = "done"
          => /\ outbox[i].placed = countOf("path", outbox[i].id)
             /\ outbox[i].placed <= Max2(0, sent[outbox[i].id].maxPaths)

\* A done message that reports two paths.
C8_Witness ==
  \E i \in DOMAIN outbox : outbox[i].type = "done" /\ outbox[i].placed = 2

(***************************************************************************)
(* C9.  A build that entered the placement loop reaches done only when     *)
(* placed = maxPaths, or the failed attempts have reached maxPaths *       *)
(* maxTries, or (amendment) selectPair has no pair left to return.         *)
(***************************************************************************)
noPairLeft ==
  /\ ~useLoopPaths
  /\ needNewPair
  /\ pairChoices(Tables[cur.grid]) = {NullPair}

remaining ==
  (Max2(0, cur.maxPaths) - placed) + (maxAttempts - attempts)

rank ==
  IF pc = "idle" THEN 0
  ELSE IF pc = "started" THEN 2 * (Max2(0, cur.maxPaths) + maxAttempts) + 3
  ELSE IF pc = "loop" THEN 2 * remaining + 2
  ELSE 2 * remaining + 1

endsProperly ==
  \/ /\ outbox' # outbox
     /\ outbox'[Len(outbox')].id = cur.id
     /\ outbox'[Len(outbox')].type \in {"done", "error"}
  \/ /\ outbox' = outbox
     /\ cancelledAt'[cur.id] # "none"

C10_BuildsTerminate ==
  [][/\ rank >= 0
     /\ (pc # "idle" /\ <<pc, outbox, buildVars>>' # <<pc, outbox, buildVars>>)
          => rank' < rank
     /\ (pc # "idle" /\ pc' = "idle") => endsProperly
     /\ (pc = "loop" /\ placed < cur.maxPaths)
          => placed + attempts + 1 <= cur.maxPaths + maxAttempts]_vars

\* A build that ended after iterations of both kinds.
C10_Witness ==
  \E i \in DOMAIN outbox :
     /\ outbox[i].type = "debug" /\ outbox[i].stage = "done"
     /\ outbox[i].placed > 0
     /\ outbox[i].attempts > 0

(***************************************************************************)
(* C11.  Handling an inbound message, build or cancel, raises the token by *)
(* exactly 1 and nothing else changes the token, so it never decreases; a  *)
(* build that starts holds the token as it is right after its own          *)
(* increment; and handling a cancel posts nothing.                         *)
(***************************************************************************)
messageTaken == Len(inbox') < Len(inbox)

C11_TokenCountsMessages ==
  [][/\ activeToken' >= activeToken
     /\ messageTaken => activeToken' = activeToken + 1
     /\ activeToken' # activeToken => messageTaken
     /\ (pc = "idle" /\ pc' = "started") => cur'.token = activeToken + 1
     /\ (messageTaken /\ Head(inbox).type = "cancel") => outbox' = outbox]_vars

\* A build that started after a cancel had been handled.
C11_Witness ==
  /\ pc = "started"
  /\ activeToken = 2
  /\ cur.token = 2
  /\ outbox = <<DebugMessage(cur.id, "start", 0, 0, 0, 0)>>

(***************************************************************************)
(* C12.  In two-sided mode every emitted path is a closed loop: it ends on *)
(* the node it starts with and runs a1 -> a2 -> b1 -> b2 -> a1 over edges  *)
(* of the search, with a1 # a2 of the start pool and b1 # b2 of the end    *)
(* pool, and no node is repeated where two segments meet.                  *)
(***************************************************************************)
Range(q) == {q[i] : i \in DOMAIN q}

searchEdge(t, a, b) ==
  /\ a \in DOMAIN t.edges
  /\ \/ \E i \in DOMAIN t.edges[a] : t.edges[a][i].to = b
     \/ (a >= t.holeCenterBaseIndex /\ b >= t.holeCenterBaseIndex
         /\ Abs(a - b) = 1)

closedLoop(t, path) ==
  /\ Len(path) >= 5
  /\ path[1] = path[Len(path)]
  /\ \A j \in 1..(Len(path) - 1) :
        path[j] # path[j + 1] /\ searchEdge(t, path[j], path[j + 1])
  /\ \E p1, p2, p3 \in 2..(Len(path) - 1) :
        /\ p1 < p2 /\ p2 < p3
        /\ path[1] \in Range(t.startPool) /\ path[p1] \in Range(t.startPool)
        /\ path[1] # path[p1]
        /\ path[p2] \in Range(t.endPool) /\ path[p3] \in Range(t.endPool)
        /\ path[p2] # path[p3]

C12_LoopsAreClosed ==
  (pc # "idle" /\ useLoopPaths) =>
    \A i \in positionsOf("path", cur.id) :
       closedLoop(Tables[cur.grid], outbox[i].path)

\* A running two-sided build that has emitted a loop.
C12_Witness ==
  /\ pc # "idle" /\ useLoopPaths
  /\ \E i \in positionsOf("path", cur.id) :
        Len(outbox[i].path) = 5 /\ outbox[i].path[1] = outbox[i].path[5]

(***************************************************************************)
(* C13.  A path that aStar returns as found costs no more than the         *)
(* cheapest route from its start to its end in the graph of the build      *)
(* (nodes below the usage cap, the edges of the search), as an exhaustive  *)
(* search computes it.  Refuted: below a hole-center node at the cap the   *)
(* scan of the node above it ends before its upward edge is relaxed.       *)
(***************************************************************************)
MinOf(S) == CHOOSE x \in S : \A y \in S : x <= y

\* Edges a -> b of the graph with their costs.
edgeCosts(t, a, b) ==
  {t.edges[a][i].cost : i \in {j \in DOMAIN t.edges[a] : t.edges[a][j].to = b}}
  \cup (IF /\ a >= t.holeCenterBaseIndex /\ b >= t.holeCenterBaseIndex
            /\ Abs(a - b) = 1
            /\ (a - t.holeCenterBaseIndex) \div t.vertexCountY
               = (b - t.holeCenterBaseIndex) \div t.vertexCountY
         THEN {t.voxelHeight * CostScale} ELSE {})

edgeCost(t, a, b) ==
  IF edgeCosts(t, a, b) = {} THEN Infinity ELSE MinOf(edgeCosts(t, a, b))

\* One round of relaxation of every edge into a node below the cap: the
\* distances of the nodes n, n + 1, ... as a sequence (d[m + 1] for node m).
RECURSIVE relaxAll(_, _, _, _, _)
relaxAll(t, usage, cap, d, n) ==
  IF n >= Len(d) THEN <<>>
  ELSE <<IF AtCap(usage, cap, n) THEN d[n + 1]
         ELSE MinOf({d[n + 1]}
                    \cup {d[m + 1] + edgeCost(t, m, n) : m \in 0..(Len(d) - 1)})>>
       \o relaxAll(t, usage, cap, d, n + 1)

RECURSIVE relaxRounds(_, _, _, _, _)
relaxRounds(t, usage, cap, d, k) ==
  IF k = 0 THEN d
  ELSE relaxRounds(t, usage, cap, relaxAll(t, usage, cap, d, 0), k - 1)

RECURSIVE startDistances(_, _, _)
startDistances(t, a, n) ==
  IF n >= t.totalNodeCount THEN <<>>
  ELSE <<IF n = a THEN 0 ELSE Infinity>> \o startDistances(t, a, n + 1)

\* The cost of the cheapest route from a to b, Infinity or more if none.
cheapest(t, usage, cap, a, b) ==
  relaxRounds(t, usage, cap, startDistances(t, a, 0), t.totalNodeCount)[b + 1]

RECURSIVE pathCost(_, _, _)
pathCost(t, path, j) ==
  IF j >= Len(path) THEN 0
  ELSE edgeCost(t, path[j], path[j + 1]) + pathCost(t, path, j + 1)

C14_UsageWithinCap ==
  [][/\ pc # "idle" =>
          /\ cur.maxPathsPerVertex
               = Min2(65535, Max2(1, sent[cur.id].maxPathsPerVertex))
          /\ \A n \in DOMAIN nodeUsage :
                nodeUsage[n] >= 0 /\ nodeUsage[n] <= cur.maxPathsPerVertex
     /\ (pc # "idle" /\ pc' # "idle") =>
          \A n \in DOMAIN nodeUsage : nodeUsage'[n] >= nodeUsage[n]]_vars

\* A running build whose loop passes a node twice and holds it at the cap.
C14_Witness ==
  /\ pc # "idle"
  /\ \E n \in DOMAIN nodeUsage :
        appearances(n, cur.id) = 2 /\ nodeUsage[n] = cur.maxPathsPerVertex

(***************************************************************************)
(* C15.  Every node index a search reads or writes in the usage and        *)
(* scratch arrays (the targets of the edges of each node it expanded) and  *)
(* every node index of an emitted path lies in 0 .. totalNodeCount - 1.    *)
(* Refuted: the corner indices of a hole-center node are computed without  *)
(* a test against the lattice bounds.                                      *)
(***************************************************************************)
\* The nodes the last search expanded: closed under its stamp, the end node
\* apart, which ends the search when it is popped.
expandedBy(sc, endIndex) ==
  {n \in DOMAIN sc.closed : sc.closed[n] = sc.stamp /\ n # endIndex}

C15_IndicesInRange ==
  [][(pc = "search" /\ ~useLoopPaths) =>
       /\ \A n \in expandedBy(scratch', pairEnd) :
             \A i \in DOMAIN Tables[cur.grid].edges[n] :
                Tables[cur.grid].edges[n][i].to \in DOMAIN nodeUsage
       /\ \A i \in DOMAIN outbox' :
             Range(outbox'[i].path) \subseteq DOMAIN nodeUsage]_vars

(***************************************************************************)
(* C16.  The messages of a build that ended with done are, in order:       *)
(* debug `start`, debug `valid`, then, if a path was placed, debug `path`  *)
(* and the path messages, then debug `done`, then done; and messages are   *)
(* only ever appended to the stream, so paths appear in acceptance order.  *)
(***************************************************************************)
messagesOf(id) ==
  LET ofId(m) == m.id = id
  IN SelectSeq(outbox, ofId)

isDebug(m, stage) == m.type = "debug" /\ m.stage = stage

inBuildOrder(q) ==
  /\ Len(q) >= 4
  /\ isDebug(q[1], "start")
  /\ isDebug(q[2], "valid")
  /\ isDebug(q[Len(q) - 1], "done")
  /\ q[Len(q)].type = "done"
  /\ Len(q) > 4 =>
       /\ Len(q) >= 6
       /\ isDebug(q[3], "path")
       /\ \A j \in 4..(Len(q) - 2) : q[j].type = "path"

completedInOrder ==
  \A id \in Ids : countOf("done", id) = 1 => inBuildOrder(messagesOf(id))

C16_MessagesInOrder ==
  [][/\ completedInOrder'
     /\ Len(outbox') >= Len(outbox)
     /\ headersOf(SubSeq(outbox', 1, Len(outbox))) = headersOf(outbox)]_vars

\* A completed build with two paths: seven messages.
C16_Witness ==
  \E id \in Ids : countOf("done", id) = 1 /\ Len(messagesOf(id)) = 7

(***************************************************************************)
(* C17.  A build starts with every usage counter at 0 and enters its       *)
(* placement loop with fresh scratch arrays and counters, whatever earlier *)
(* builds did; when no build runs the worker holds nothing of a build, so  *)
(* the token is the only state carried from one build to the next.         *)
(***************************************************************************)
C17_BuildsStartFresh ==
  [][/\ (pc = "idle" /\ pc' = "started")
          => nodeUsage' = [n \in Nodes(Grids[cur'.grid]) |-> 0]
     /\ (pc = "started" /\ pc' = "loop")
          => /\ \A n \in DOMAIN nodeUsage' : nodeUsage'[n] = 0
             /\ scratch' = freshScratch(Tables[cur.grid])
             /\ loopVars' = <<0, 0, NoNode, NoNode, 0>>
     /\ pc' = "idle"
          => buildVars' = <<NoBuild, <<>>, NoScratch, 0, 0, NoNode, NoNode, 0>>]_vars

\* The second build at the head of its loop, after a first build that
\* placed a path.
C17_Witness ==
  /\ pc = "loop" /\ cur.id = 2 /\ placed = 0 /\ attempts = 0
  /\ \E i \in DOMAIN outbox : outbox[i].type = "path" /\ outbox[i].id = 1

(***************************************************************************)
(* C18.  In a pure hole field (every instance has direction 0) whose       *)
(* domain edges are open in x and in z and whose lattice has more than one *)
(* vertex (amendment), every lattice vertex is classified clear, whatever  *)
(* the voxel size.                                                         *)
(***************************************************************************)
pureHoleField(g) ==
  \A i \in 0..(g.instanceCount - 1) : instanceDirection(g, i) = 0

allClear(g) == \A v \in 0..(totalVertices(g) - 1) : hasClear(g, v)

\* The grids of the builds whose classification has been done.
classifiedGrids ==
  {Grids[sent[outbox[i].id].grid] :
     i \in {j \in DOMAIN outbox : isDebug(outbox[j], "valid")}}

C18_OpenHoleFieldAllClear ==
  \A g \in classifiedGrids :
     (/\ pureHoleField(g)
      /\ g.xEdgesOpen /\ g.zEdgesOpen
      /\ totalVertices(g) > 1) => allClear(g)

\* The statement as written: for any setting of the edges-open flags.
C18_HoleFieldAllClear ==
  \A g \in classifiedGrids : pureHoleField(g) => allClear(g)

\* A classified build on the open hole field: all four vertices are valid.
C18_Witness ==
  \E i \in DOMAIN outbox :
     /\ isDebug(outbox[i], "valid")
     /\ Grids[sent[outbox[i].id].grid] = GridField
     /\ outbox[i].validCount = 4

(***************************************************************************)
(* C19.  The handling of a build message is atomic with respect to inbound *)
(* messages: from the start of a build to its return no message is taken   *)
(* from the inbound queue and the global token does not change, every      *)
(* message posted meanwhile is one of that build, and so the messages of   *)
(* one build are contiguous in the outbound stream.                        *)
(***************************************************************************)
contiguous(q) ==
  \A i, k \in DOMAIN q :
     (i < k /\ q[i].id = q[k].id) =>
        \A j \in i..k : q[j].id = q[i].id

C19_BuildIsAtomic ==
  [][/\ pc # "idle" =>
          /\ activeToken' = activeToken
          /\ ~messageTaken
          /\ \A i \in (Len(outbox) + 1)..Len(outbox') : outbox'[i].id = cur.id
     /\ contiguous(outbox')]_vars

\* A build is searching while the cancel message that names it waits in the
\* inbound queue: the token is still the one the build captured.
C19_Witness ==
  /\ pc = "search"
  /\ cur.id = 1
  /\ Len(inbox) = 1
  /\ Head(inbox).type = "cancel"
  /\ activeToken = cur.token
  /\ \E i \in DOMAIN outbox : isDebug(outbox[i], "valid")

(***************************************************************************)
(* C20.  When a path is accepted, the usage counter of every node of the   *)
(* path increases by exactly 1 or stays at the cap, and the counters of    *)
(* the other nodes are unchanged; a failed attempt changes no counter.     *)
(* Refuted: blockPath counts every position of the path, and a loop holds  *)
(* its first node twice.                                                   *)
(***************************************************************************)
countedOnce(before, after, cap, path) ==
  \A n \in DOMAIN before :
     IF n \in Range(path)
     THEN \/ after[n] = before[n] + 1
          \/ (before[n] = cap /\ after[n] = cap)
     ELSE after[n] = before[n]

C20_AcceptCountsOnce ==
  [][(pc = "search" /\ pc' = "loop") =>
        IF placed' = placed + 1
        THEN /\ DOMAIN nodeUsage' = DOMAIN nodeUsage
             /\ countedOnce(nodeUsage, nodeUsage', cur.maxPathsPerVertex,
                            outbox'[Len(outbox')].path)
        ELSE nodeUsage' = nodeUsage]_vars

(***************************************************************************)
(* C21.  No path returned by one aStar call contains a node whose usage    *)
(* counter was at the cap when the call began, and a call whose start or   *)
(* end node is at the cap returns failed without expanding (closing) any   *)
(* node.                                                                   *)
(***************************************************************************)
lastResult == outbox[Len(outbox)]

probed == pc = "search" /\ placed' = placed + 1 /\ cur.id \in DOMAIN ProbeInputs

endpointAtCap(a, b) ==
  AtCap(nodeUsage, cur.maxPathsPerVertex, a)
  \/ AtCap(nodeUsage, cur.maxPathsPerVertex, b)

C21_CappedNodesImpassable ==
  [][probed =>
       /\ \A i \in DOMAIN lastResult'.path :
             ~AtCap(nodeUsage, cur.maxPathsPerVertex, lastResult'.path[i])
       /\ endpointAtCap(pairStart', pairEnd') =>
             /\ lastResult'.type = "failed"
             /\ \A n \in DOMAIN scratch'.closed :
                   scratch'.closed[n] # scratch'.stamp]_vars

\* On GridShaft with nodes 3 and 13 at the cap: a path from 2 to 4 round
\* them, then the call from 13 that fails at the endpoint test.
C21_Witness ==
  /\ cur.id = 2 /\ nodeUsage[13] = 2
  /\ Len(outbox) = 2
  /\ outbox[1].type = "found" /\ Len(outbox[1].path) >= 3
  /\ outbox[1].path[1] = 2
  /\ pairStart = 13 /\ pairEnd = 4
  /\ outbox[2].type = "failed"

(***************************************************************************)
(* C22.  aStar is complete: without cancellation it returns found exactly  *)
(* when some route from start to end exists in the graph of the search     *)
(* (nodes below the usage cap, unblocked lattice edges, hole-center        *)
(* edges).  Refuted: the scan of a hole-center node whose lower neighbour  *)
(* is at the cap ends before its upward edge is relaxed.                   *)
(***************************************************************************)
routeExists(t, a, b) ==
  /\ ~endpointAtCap(a, b)
  /\ cheapest(t, nodeUsage, cur.maxPathsPerVertex, a, b) < Infinity

levelOf(t, n) == (n - t.holeCenterBaseIndex) % t.vertexCountY

scored(sc, n) == HasStamp(sc.gStamp, n, sc.stamp)

verticalsRelaxed(t, sc, n) ==
  /\ (levelOf(t, n) + 1 < t.vertexCountY
       /\ ~AtCap(nodeUsage, cur.maxPathsPerVertex, n + 1)) => scored(sc, n + 1)
  /\ (levelOf(t, n) > 0
       /\ ~AtCap(nodeUsage, cur.maxPathsPerVertex, n - 1)) => scored(sc, n - 1)

singleBuild == pc # "idle" /\ cur.id \in DOMAIN sent /\ ~useLoopPaths
pairOf == <<pairStart, pairEnd>>
pairSpent == pairStart = NoNode \/ pairEnd = NoNode \/ pairTries >= cur.maxTries
searchBegins == singleBuild /\ pc = "loop" /\ pc' = "search"
searchEnds == singleBuild /\ pc = "search" /\ pc' = "loop"

retriedUntilSpent ==
  /\ (searchBegins /\ ~pairSpent) => (pairOf' = pairOf /\ pairTries' = pairTries)
  /\ (searchBegins /\ pairSpent) =>
        /\ pairTries' = 0
        /\ pairOf' \in selectPair(Tables[cur.grid].startPool,
                                  Tables[cur.grid].endPool, FALSE, nodeUsage,
                                  cur.maxPathsPerVertex)
  /\ (singleBuild /\ pc = "search") => pairTries < cur.maxTries
  /\ (searchEnds /\ placed' = placed) =>
        (pairOf' = pairOf /\ pairTries' = pairTries + 1)
  /\ (searchEnds /\ placed' = placed + 1) =>
        (pairOf' = NullPair /\ pairTries' = 0)

C24_PairRetriedUntilSpent == [][retriedUntilSpent]_vars

\* The statement as written: a pair that has failed maxTries times is not the
\* pair of the next search.
C24_NoPairBeyondMaxTries ==
  [][/\ retriedUntilSpent
     /\ (searchBegins /\ pairStart # NoNode /\ pairTries >= cur.maxTries)
          => pairOf' # pairOf]_vars

\* The second search of a pair that has failed once, with maxTries = 2.
C24_Witness ==
  /\ singleBuild /\ pc = "search"
  /\ cur.maxTries = 2 /\ pairTries = 1 /\ attempts = 1
  /\ pairStart # NoNode

(***************************************************************************)
(* C25.  In loop mode an attempt one of whose four segments fails is a     *)
(* failed attempt: it emits no message, changes no usage counter, counts   *)
(* as exactly one failed attempt, and the segments after the failed one    *)
(* are not searched (the scratch arrays are those the failed search left). *)
(***************************************************************************)
loopStops(sideA, sideB) == <<sideA[1], sideA[2], sideB[1], sideB[2], sideA[1]>>

\* The k-th search of the chain over stops that starts from scratch sc.
RECURSIVE segmentResult(_, _, _, _)
segmentResult(t, sc, stops, k) ==
  aStar(t, nodeUsage, cur.maxPathsPerVertex,
        IF k = 1 THEN sc ELSE segmentResult(t, sc, stops, k - 1).scratch,
        stops[k], stops[k + 1], FALSE)

\* The chain over stops fails at its k-th search and leaves the scratch sc2.
failsAt(t, sc, stops, k, sc2) ==
  /\ \A j \in 1..(k - 1) : segmentResult(t, sc, stops, j).status = "found"
  /\ segmentResult(t, sc, stops, k).status = "failed"
  /\ segmentResult(t, sc, stops, k).scratch = sc2

loopAttemptFailed(t) ==
  \E sideA \in sidePicks(t.startPool), sideB \in sidePicks(t.endPool) :
     IF sideA = NullPair \/ sideB = NullPair THEN scratch' = scratch
     ELSE \E k \in 1..4 : failsAt(t, scratch, loopStops(sideA, sideB), k, scratch')

C25_FailedSegmentFailsLoop ==
  [][(pc = "search" /\ cur.id \in DOMAIN sent /\ useLoopPaths
      /\ pc' = "loop" /\ placed' = placed) =>
        /\ outbox' = outbox
        /\ nodeUsage' = nodeUsage
        /\ attempts' = attempts + 1
        /\ loopAttemptFailed(Tables[cur.grid])]_vars

\* On GridLoopSplit the second segment (a2 to b1) has failed: one failed
\* attempt, two searches made, no path emitted.
C25_Witness ==
  /\ pc = "loop" /\ cur.id \in DOMAIN sent /\ cur.grid = 13
  /\ attempts = 1 /\ placed = 0
  /\ scratch.stamp = 3
  /\ positionsOf("path", cur.id) = {}

(***************************************************************************)
(* C26.  In single-path mode selectPair returns a pair whenever its pool   *)
(* holds at least two nodes below the usage cap and null only when it      *)
(* holds fewer, whatever the random draws are; a returned pair has start   *)
(* # end, both in the pool and both below the cap.                         *)
(***************************************************************************)
belowCap(pool) ==
  {n \in Range(pool) : ~AtCap(nodeUsage, cur.maxPathsPerVertex, n)}

properPair(pool, pair) ==
  /\ pair[1] # pair[2]
  /\ pair[1] \in belowCap(pool)
  /\ pair[2] \in belowCap(pool)

pairsAsPromised(pool, pairs) ==
  /\ Cardinality(belowCap(pool)) >= 2 => NullPair \notin pairs
  /\ Cardinality(belowCap(pool)) < 2 => pairs = {NullPair}
  /\ \A pair \in pairs \ {NullPair} : properPair(pool, pair)

C26_SelectPairFindsPairs ==
  (singleBuild /\ pc \in {"loop", "search"}) =>
     pairsAsPromised(Tables[cur.grid].startPool,
                     selectPair(Tables[cur.grid].startPool,
                                Tables[cur.grid].endPool, FALSE, nodeUsage,
                                cur.maxPathsPerVertex))

\* A build that has placed two paths and whose pool of four nodes has no
\* node left below the cap: selectPair returns null.
C26_Witness ==
  /\ singleBuild /\ pc = "loop" /\ placed = 2
  /\ Len(Tables[cur.grid].startPool) = 4
  /\ belowCap(Tables[cur.grid].startPool) = {}
  /\ selectPair(Tables[cur.grid].startPool, Tables[cur.grid].endPool, FALSE,
                nodeUsage, cur.maxPathsPerVertex) = {NullPair}

(***************************************************************************)
(* C27.  A lattice vertex is flagged boundary (boundaryFlags = 1, member   *)
(* of a boundary pool) only if it has at least one clear incident edge and *)
(* at least one blocked incident edge, and every boundary vertex is in the *)
(* clear pool too.                                                         *)
(***************************************************************************)
adjacentVertices(g, v) ==
  {u \in 0..(totalVertices(g) - 1) :
     /\ u # v
     /\ Abs(IxOf(g, u) - IxOf(g, v)) <= 1
     /\ Abs(IyOf(g, u) - IyOf(g, v)) <= 1
     /\ Abs(IzOf(g, u) - IzOf(g, v)) <= 1}

edgeBlocked(g, v, u) == ~latticeEdge(g, v, u) \/ segmentHitsBuildings(g, v, u)

clearEdgeAt(g, v) ==
  \/ \E u \in adjacentVertices(g, v) : ~edgeBlocked(g, v, u)
  \/ \E h \in Nodes(g) : holeCenterEdge(g, v, h)

blockedEdgeAt(g, v) == \E u \in adjacentVertices(g, v) : edgeBlocked(g, v, u)

boundaryPoolsOf(c) ==
  Range(c.boundaryIndices) \cup Range(c.boundaryPositive)
  \cup Range(c.boundaryNegative)

clearPoolsOf(c) ==
  Range(c.anyClearIndices) \cup Range(c.anyClearPositive)
  \cup Range(c.anyClearNegative)

flagged(c) == {v \in DOMAIN c.boundaryFlags : c.boundaryFlags[v] = 1}

boundaryAsDefined(g, c) ==
  /\ \A v \in flagged(c) \cup boundaryPoolsOf(c) :
        clearEdgeAt(g, v) /\ blockedEdgeAt(g, v)
  /\ boundaryPoolsOf(c) \subseteq flagged(c)
  /\ flagged(c) \subseteq Range(c.anyClearIndices)
  /\ Range(c.boundaryPositive) \subseteq Range(c.anyClearPositive)
  /\ Range(c.boundaryNegative) \subseteq Range(c.anyClearNegative)

classified == pc \in {"loop", "search"} /\ cur.id \in DOMAIN sent

C27_BoundaryHasBothEdges ==
  classified => boundaryAsDefined(Grids[cur.grid], classifyVertices(Grids[cur.grid]))

\* A classified build on GridStrip: vertex 1 is boundary, vertex 0 is clear
\* with every edge inside the lattice free and is not flagged.
C27_Witness ==
  /\ classified /\ cur.grid = 1
  /\ Tables[1].boundaryFlags[1] = 1
  /\ Tables[1].boundaryFlags[0] = 0
  /\ clearEdgeAt(Grids[1], 0) /\ ~blockedEdgeAt(Grids[1], 0)

(***************************************************************************)
(* C28.  In the classification a 26-neighbour outside the lattice counts   *)
(* as a blocked edge of the vertex, so a vertex on the outer face of the   *)
(* lattice that has a clear edge is classified boundary.  Refuted: the     *)
(* classifier skips such a neighbour without noting a blocked edge.        *)
(***************************************************************************)
onOuterFace(g, v) ==
  \E i \in 1..26 : ~neighborInLattice(g, v, neighborOffsets[i])

C28_OuterFaceIsBoundary ==
  classified =>
    \A v \in 0..(totalVertices(Grids[cur.grid]) - 1) :
       (onOuterFace(Grids[cur.grid], v) /\ clearEdgeAt(Grids[cur.grid], v))
         => Tables[cur.grid].boundaryFlags[v] = 1

(***************************************************************************)
(* C29.  In single-path mode the first and the last node of every emitted  *)
(* path are distinct and belong to the boundary pool when the build has a  *)
(* boundary vertex, and to the any-clear pool otherwise.                   *)
(***************************************************************************)
endpointPool(c) ==
  IF c.boundaryIndices # <<>> THEN Range(c.boundaryIndices)
  ELSE Range(c.anyClearIndices)

endsInPool(c, path) ==
  /\ path[1] # path[Len(path)]
  /\ path[1] \in endpointPool(c)
  /\ path[Len(path)] \in endpointPool(c)

C29_EndpointsFromPool ==
  (singleBuild) =>
     \A i \in positionsOf("path", cur.id) :
        endsInPool(classifyVertices(Grids[cur.grid]), outbox[i].path)

\* A path on the open hole field, which has no boundary vertex: its ends
\* come from the any-clear pool.
C29_Witness ==
  /\ singleBuild /\ Grids[cur.grid] = GridField
  /\ classifyVertices(GridField).boundaryIndices = <<>>
  /\ positionsOf("path", cur.id) # {}

(***************************************************************************)
(* C30.  The result of aStar for a start, an end and a usage table is the  *)
(* same whether its scratch arrays are fresh or were left behind by        *)
(* earlier calls, also across the stamp reset: status and path are those   *)
(* of the search on fresh arrays, and the nodes closed and the nodes       *)
(* scored under the stamp of the search are the same ones.                 *)
(***************************************************************************)
stampedIn(arr, stamp) == {n \in DOMAIN arr : arr[n] = stamp}

sameSearch(result, fresh) ==
  /\ result.status = fresh.status
  /\ result.path = fresh.path
  /\ stampedIn(result.scratch.closed, result.scratch.stamp)
     = stampedIn(fresh.scratch.closed, fresh.scratch.stamp)
  /\ stampedIn(result.scratch.gStamp, result.scratch.stamp)
     = stampedIn(fresh.scratch.gStamp, fresh.scratch.stamp)

C30_ScratchReuseIsInvisible ==
  [][probed =>
       sameSearch([status |-> lastResult'.type, path |-> lastResult'.path,
                   scratch |-> scratch'],
                  aStar(Tables[cur.grid], nodeUsage, cur.maxPathsPerVertex,
                        freshScratch(Tables[cur.grid]), pairStart', pairEnd',
                        FALSE))]_vars

\* The search after the one that reset the stamp: it runs under stamp 2, as
\* the first search of the run did, and finds a path of three nodes or more.
C30_Witness ==
  /\ cur.id \in DOMAIN ProbeInputs /\ sent = <<>>
  /\ placed = 3 /\ Len(outbox) = 4
  /\ scratch.stamp = 2
  /\ outbox[1].type = "found" /\ Len(outbox[1].path) >= 3
  /\ lastResult.type = "found" /\ Len(lastResult.path) >= 3

(***************************************************************************)
(* C31: among the entries of the open heap with equal score f = g + h,     *)
(* heapPop returns them in the order in which they were pushed: no entry   *)
(* has been popped while an entry of the same score that was pushed before *)
(* it is still waiting in the heap.                                        *)
(***************************************************************************)
poppedBefore(p, e) == p.score = e.score /\ e.idx < p.idx

C31_EqualScoresPopInPushOrder ==
  pc = "heap" =>
    \A i \in DOMAIN outbox, j \in 0..(scratch.size - 1) :
       ~poppedBefore(outbox[i],
                     heapEntry(indexAt(scratch, j), scoreAt(scratch, j)))

(***************************************************************************)
(* C32.  With hole-center nodes enabled, the cells that carry hole-center  *)
(* nodes are exactly the cells without a building (every instance of the   *)
(* cell absent, on both sides in two-sided mode), one node per Y-level:    *)
(* the node space of a running build has as many nodes as the lattice has  *)
(* vertices plus (building-less cells) x (countY + 1).                     *)
(***************************************************************************)
instancesOf(g, cell) ==
  {cell * perCell(g) + i : i \in 0..(perCell(g) - 1)}

buildingLess(g, cell) ==
  \A instanceIndex \in instancesOf(g, cell) :
     /\ instanceIndex < g.instanceCount
     /\ instanceDirection(g, instanceIndex) = 0

buildingLessCells(g) ==
  {cell \in 0..(cellCount(g) - 1) : buildingLess(g, cell)}

holeNodesAsPromised(g) ==
  /\ Range(holeCells(g)) = buildingLessCells(g)
  /\ Cardinality(DOMAIN nodeUsage)
       = totalVertices(g) + Cardinality(buildingLessCells(g)) * (g.countY + 1)

C32_HoleNodesForBuildingLessCells ==
  (classified /\ useHoleCenters(Grids[cur.grid]))
     => holeNodesAsPromised(Grids[cur.grid])

(***************************************************************************)
(* C34.  Whenever aStar has closed the goal, the path reconstruction       *)
(* succeeds: the result is `found`, none of the `failed` returns of the    *)
(* reconstruction is taken, and the path is simple, begins with the start  *)
(* node, ends with the end node and has fewer than totalNodeCount steps.   *)
(***************************************************************************)
simplePath(path) ==
  \A i \in DOMAIN path, j \in DOMAIN path : path[i] = path[j] => i = j

goalClosed(sc, endIndex) == HasStamp(sc.closed, endIndex, sc.stamp)

reconstructed(t, result, startIndex, endIndex) ==
  /\ result.type = "found"
  /\ result.path # <<>>
  /\ result.path[1] = startIndex
  /\ result.path[Len(result.path)] = endIndex
  /\ simplePath(result.path)
  /\ Len(result.path) - 1 < t.totalNodeCount

pairFailed == pairStart # NoNode /\ pairEnd # NoNode /\ pairTries >= 1
leavesLoopHead == singleBuild /\ pc = "loop" /\ pc' # "loop"

failingPairKeepsFailing ==
  /\ (searchEnds /\ pairFailed) =>
        (placed' = placed /\ pairOf' = pairOf /\ pairTries' = pairTries + 1
         /\ attempts' = attempts + 1)
  /\ (leavesLoopHead /\ pairFailed /\ pairTries < cur.maxTries) =>
        (pc' = "search" /\ pairOf' = pairOf /\ pairTries' = pairTries)
  /\ (searchBegins /\ pairFailed /\ pairTries' = 0) =>
        (pairTries = cur.maxTries /\ attempts >= cur.maxTries)

C35_FailingPairKeepsFailing == [][failingPairKeepsFailing]_vars

\* A pair that has failed twice with maxTries = 2: both attempts of the
\* build went to it.
C35_Witness ==
  /\ singleBuild /\ pc = "loop"
  /\ cur.maxTries = 2
  /\ pairFailed /\ pairTries = 2 /\ attempts = 2 /\ placed = 0

(***************************************************************************)
(* C36.  During a call of aStar the open heap never holds more entries     *)
(* than totalNodeCount, the length of heapIndices and heapScores: heapSize *)
(* stays within the arrays at every push of the search.                    *)
(***************************************************************************)
\* The largest heapSize from the search state s on.  Within an iteration
\* heapSize drops by one at the pop and then only grows, so it is largest
\* between two iterations.
RECURSIVE heapPeakFrom(_, _, _, _, _)
heapPeakFrom(t, usage, cap, endIndex, s) ==
  IF s.heap.size = 0 \/ s.status # "running" THEN s.heap.size
  ELSE Max2(s.heap.size,
            heapPeakFrom(t, usage, cap, endIndex,
                         iteration(t, usage, cap, endIndex, FALSE, s)))

heapPeak(t, usage, cap, sc, startIndex, endIndex) ==
  IF AtCap(usage, cap, startIndex) \/ AtCap(usage, cap, endIndex) THEN 0
  ELSE heapPeakFrom(t, usage, cap, endIndex,
                    startState(t, nextStamp(sc), startIndex, endIndex))

rowsSearched == pc = "rows" /\ outbox # <<>>

C33_BinarySearchKeepsOverlappingRows ==
  (rowsSearched /\ scratch.rowWorldMonotonic)
     => scannedRows(scratch, pairStart, pairEnd) \subseteq outbox[1]

(***************************************************************************)
(* C37.  segmentIntersectsFrustum reports a hit for every segment that     *)
(* passes through the interior of the tapered box between yMin and yMax,   *)
(* also when a top half-extent of the box is 0 (taper 1).  A segment       *)
(* passes through the interior when one of its points at the parameters    *)
(* k / 4 lies strictly inside the box.                                     *)
(***************************************************************************)
\* The point of s at k / 4, times 4, strictly inside b.
strictlyInside(s, b, k) ==
  LET x == 4 * s.x0 + k * (s.x1 - s.x0)
      y == 4 * s.y0 + k * (s.y1 - s.y0)
      z == 4 * s.z0 + k * (s.z1 - s.z0)
      height == b.yMax - b.yMin
  IN /\ 4 * b.yMin < y /\ y < 4 * b.yMax
     /\ Abs(x) * height
          < 4 * b.baseHalfX * height
            + (b.topHalfX - b.baseHalfX) * (y - 4 * b.yMin)
     /\ Abs(z) * height
          < 4 * b.baseHalfZ * height
            + (b.topHalfZ - b.baseHalfZ) * (y - 4 * b.yMin)

passesInterior(s, b) == \E k \in 0..4 : strictlyInside(s, b, k)

frustumTested == pc = "frustum" /\ outbox # <<>>

C37_InteriorSegmentsHit ==
  (frustumTested /\ passesInterior(segmentOf(pairStart, pairEnd), scratch))
     => outbox[1]

====
